---- MODULE Spec2Model ----
(***************************************************************************)
(* A model of the position / cash-flow ledger (ReturnCalculator), the      *)
(* decision engine (StockTrader) and the day loop of the backtester        *)
(* (StockBacktester) of the ashare package.                                *)
(*                                                                         *)
(* Dates are day numbers (1, 2, ...); a missing date (Python None) is      *)
(* NoDate.  Decimal values are modelled as Python's decimal.Decimal is     *)
(* built: a coefficient c and a number e of decimal places, value          *)
(* c * 10^(-e), kept normalised so that numerically equal Decimals are     *)
(* equal records.  The status of an executed corporate action ('实施')      *)
(* is written "executed", a cash-flow tag '交易' is "trade" and '分红' is   *)
(* "dividend".                                                             *)
(***************************************************************************)
EXTENDS Integers, Sequences, FiniteSets, TLC

VARIABLES
    trades,      \* ReturnCalculator / StockBacktester: the trade list given
    quotes,      \* the list of daily quotes given
    dividends,   \* the list of corporate-action records given
    indicators,  \* StockTrader / StockBacktester: the daily indicators given
    reports,     \* the financial reports given
    list_date,   \* StockBacktester: the listing date of the stock
    cur_date,    \* StockBacktester.backtest_stock: current_date, the day the loop is at
    results,     \* the rows backtest_stock has recorded
    pc,          \* where backtest_stock is: "idle", "loop", "done", "raised"
    call,        \* the operation last invoked, with its arguments
    ret,         \* what that operation returned or raised
    sync_tasks,  \* SyncTaskRepository: the table sync_tasks, a row or none per type
    now,         \* datetime.now()
    api,         \* TushareAPI: max_retries and retry_delay
    attempt,     \* TushareAPI wrapper: the loop variable attempt
    log          \* the calls made to collaborators, in order

dataVars == <<trades, quotes, dividends, indicators, reports, list_date>>
runVars == <<cur_date, results, pc>>
syncVars == <<sync_tasks, now>>
retryVars == <<api, attempt>>
otherVars == <<syncVars, retryVars, log>>
vars == <<dataVars, runVars, call, ret, otherVars>>

-----------------------------------------------------------------------------
(* Bounds of the model *)

MaxDay == 3
MaxTrades == 2
MaxDivs == 1
MaxReports == 6
\* the longest list of cash flows handed to the growth-rate estimation
MaxFcff == 7

Days == 1..MaxDay

(* Program constants *)

NoDate == 0
DateMax == 3652059

-----------------------------------------------------------------------------
(* decimal.Decimal: exact decimal arithmetic *)

RECURSIVE Pow10(_)
Pow10(n) == IF n <= 0 THEN 1 ELSE 10 * Pow10(n - 1)

RECURSIVE Norm(_)
Norm(x) ==
    IF x.c = 0 THEN [c |-> 0, e |-> 0]
    ELSE IF x.e > 0 /\ x.c % 10 = 0 THEN Norm([c |-> x.c \div 10, e |-> x.e - 1])
    ELSE x

Dec(c, e) == Norm([c |-> c, e |-> e])
DecInt(n) == [c |-> n, e |-> 0]
DecZero == [c |-> 0, e |-> 0]

MaxOf(a, b) == IF a >= b THEN a ELSE b
Lift(x, e) == x.c * Pow10(e - x.e)

DecAdd(a, b) == LET e == MaxOf(a.e, b.e) IN Norm([c |-> Lift(a, e) + Lift(b, e), e |-> e])
DecNeg(a) == [c |-> 0 - a.c, e |-> a.e]
DecSub(a, b) == DecAdd(a, DecNeg(b))
DecMul(a, b) == Norm([c |-> a.c * b.c, e |-> a.e + b.e])
DecLe(a, b) == LET e == MaxOf(a.e, b.e) IN Lift(a, e) <= Lift(b, e)
DecLt(a, b) == LET e == MaxOf(a.e, b.e) IN Lift(a, e) < Lift(b, e)
DecTruthy(a) == a.c # 0

-----------------------------------------------------------------------------
(* Python's sorted(): a stable sort.  StableOrder(keys, n) is the order in  *)
(* which the first n elements come out, as a sequence of indices.           *)

RECURSIVE StableOrder(_, _)
StableOrder(keys, n) ==
    IF n = 0 THEN <<>>
    ELSE LET prev == StableOrder(keys, n - 1)
             k == Cardinality({j \in 1..(n - 1) : keys[j] <= keys[n]})
         IN SubSeq(prev, 1, k) \o <<n>> \o SubSeq(prev, k + 1, n - 1)

SortedBy(s, keys) ==
    LET order == StableOrder(keys, Len(s))
    IN [i \in 1..Len(s) |-> s[order[i]]]

-----------------------------------------------------------------------------
(* ReturnCalculator *)

\* a status test that lets every record through
IsExecuted_AnyStatus(d) == TRUE

IsExecuted(d) == d.div_proc = "executed"

DividendSortKey(d) == IF d.base_date # NoDate THEN d.base_date ELSE DateMax

\* ReturnCalculator.__init__
ReturnCalculator(trs, qs, divs) ==
    LET kept == SelectSeq(divs, IsExecuted)
    IN [trades |-> SortedBy(trs, [i \in 1..Len(trs) |-> trs[i].trade_date]),
        quotes |-> qs,
        dividends |-> SortedBy(kept, [i \in 1..Len(kept) |-> DividendSortKey(kept[i])])]

\* self.quotes.get(d): the dict built in __init__ keeps the last quote of a date
HasQuote(rc, d) == \E i \in 1..Len(rc.quotes) : rc.quotes[i].trade_date = d
QuoteGet(rc, d) ==
    LET i == CHOOSE i \in 1..Len(rc.quotes) :
                 /\ rc.quotes[i].trade_date = d
                 /\ \A j \in (i + 1)..Len(rc.quotes) : rc.quotes[j].trade_date # d
    IN rc.quotes[i]

\* an events list with the actions ahead of the trades
PositionEvents_ActionsFirst(rc, current_date) ==
    LET TradeDue(t) == t.trade_date <= current_date
        DivDue(d) == d.base_date # NoDate /\ d.base_date <= current_date /\ IsExecuted(d)
        ts == SelectSeq(rc.trades, TradeDue)
        ds == SelectSeq(rc.dividends, DivDue)
    IN [i \in 1..Len(ds) |-> [event_type |-> "dividend", event_date |-> ds[i].base_date, event |-> ds[i]]]
       \o [i \in 1..Len(ts) |-> [event_type |-> "trade", event_date |-> ts[i].trade_date, event |-> ts[i]]]

\* the events list of calculate_position_shares, before it is sorted
PositionEvents(rc, current_date) ==
    LET TradeDue(t) == t.trade_date <= current_date
        DivDue(d) == d.base_date # NoDate /\ d.base_date <= current_date /\ IsExecuted(d)
        ts == SelectSeq(rc.trades, TradeDue)
        ds == SelectSeq(rc.dividends, DivDue)
    IN [i \in 1..Len(ts) |-> [event_type |-> "trade", event_date |-> ts[i].trade_date, event |-> ts[i]]]
       \o [i \in 1..Len(ds) |-> [event_type |-> "dividend", event_date |-> ds[i].base_date, event |-> ds[i]]]

\* a replay step that adds the two ratios
ApplyEvent_Additive(shares, ev) ==
    IF ev.event_type = "trade"
    THEN IF ev.event.trade_type = "buy"
         THEN DecAdd(shares, ev.event.trade_shares)
         ELSE DecSub(shares, ev.event.trade_shares)
    ELSE DecAdd(shares, DecMul(shares, DecAdd(ev.event.stk_bo_rate, ev.event.stk_co_rate)))

\* one step of the replay loop
ApplyEvent(shares, ev) ==
    IF ev.event_type = "trade"
    THEN IF ev.event.trade_type = "buy"
         THEN DecAdd(shares, ev.event.trade_shares)
         ELSE DecSub(shares, ev.event.trade_shares)
    ELSE LET afterBonus == IF DecTruthy(ev.event.stk_bo_rate)
                           THEN DecAdd(shares, DecMul(shares, ev.event.stk_bo_rate))
                           ELSE shares
         IN IF DecTruthy(ev.event.stk_co_rate)
            THEN DecAdd(afterBonus, DecMul(afterBonus, ev.event.stk_co_rate))
            ELSE afterBonus

RECURSIVE Replay(_, _, _)
Replay(events, i, shares) ==
    IF i > Len(events) THEN shares
    ELSE Replay(events, i + 1, ApplyEvent(shares, events[i]))

\* a position over all the trades and actions, whatever the date asked
calculate_position_shares_AllTrades(rc, current_date) ==
    LET unsorted == PositionEvents(rc, DateMax)
        events == SortedBy(unsorted, [i \in 1..Len(unsorted) |-> unsorted[i].event_date])
    IN Replay(events, 1, DecZero)

calculate_position_shares(rc, current_date) ==
    LET unsorted == PositionEvents(rc, current_date)
        events == SortedBy(unsorted, [i \in 1..Len(unsorted) |-> unsorted[i].event_date])
    IN Replay(events, 1, DecZero)

\* the result of a call: what was raised ("none" when the call returned),
\* the Decimal returned, and the cash-flow list returned
Returned(v) == [raised |-> "none", value |-> v, flows |-> <<>>]
ReturnedFlows(f) == [raised |-> "none", value |-> DecZero, flows |-> f]
Raised(x) == [raised |-> x, value |-> DecZero, flows |-> <<>>]

\* a final value that treats a missing quote as a price of zero
get_final_value_NoRaise(rc, end_date) ==
    LET shares == calculate_position_shares(rc, end_date)
    IN IF DecLe(shares, DecZero) \/ ~HasQuote(rc, end_date) THEN Returned(DecZero)
       ELSE Returned(DecMul(shares, QuoteGet(rc, end_date).close))

get_final_value(rc, end_date) ==
    LET shares == calculate_position_shares(rc, end_date)
    IN IF DecLe(shares, DecZero) THEN Returned(DecZero)
       ELSE IF ~HasQuote(rc, end_date) THEN Raised("ValueError")
       ELSE Returned(DecMul(shares, QuoteGet(rc, end_date).close))

\* a cash flow that leaves out commission and tax
TradeAmount_NoCosts(t) ==
    IF t.trade_type = "buy" THEN DecNeg(t.trade_amount) ELSE t.trade_amount

\* the cash flow of one trade
TradeAmount(t) ==
    IF t.trade_type = "buy"
    THEN DecNeg(DecAdd(DecAdd(t.trade_amount, t.commission), t.tax))
    ELSE DecSub(DecSub(t.trade_amount, t.commission), t.tax)

TradeFlows(rc, end_date) ==
    LET Due(t) == ~(t.trade_date > end_date)
        ts == SelectSeq(rc.trades, Due)
    IN [i \in 1..Len(ts) |-> <<ts[i].trade_date, TradeAmount(ts[i]), "trade">>]

\* div.pay_date or div.ex_date
PayDate(d) == IF d.pay_date # NoDate THEN d.pay_date ELSE d.ex_date

\* the share count a dividend is paid on
DividendShares(rc, d) == calculate_position_shares(rc, d.base_date)

RECURSIVE DividendFlows(_, _, _)
DividendFlows(rc, end_date, i) ==
    IF i > Len(rc.dividends) THEN <<>>
    ELSE LET d == rc.dividends[i]
             rest == DividendFlows(rc, end_date, i + 1)
         IN IF d.base_date = NoDate \/ d.base_date > end_date THEN rest
            ELSE LET shares == DividendShares(rc, d)
                 IN IF DecLt(DecZero, shares)
                    THEN <<<<PayDate(d), DecMul(shares, d.cash_div), "dividend">>>> \o rest
                    ELSE rest

\* the list as it was built
SortFlows_NoSort(flows) == flows

SortFlows(flows) == SortedBy(flows, [i \in 1..Len(flows) |-> flows[i][1]])

get_cash_flows(rc, end_date) ==
    SortFlows(TradeFlows(rc, end_date) \o DividendFlows(rc, end_date, 1))

RECURSIVE SumFlows(_, _)
SumFlows(flows, i) ==
    IF i > Len(flows) THEN DecZero ELSE DecAdd(flows[i][2], SumFlows(flows, i + 1))

calculate_net_cash_flow_value(rc, end_date) == SumFlows(get_cash_flows(rc, end_date), 1)

get_cash_flows_with_final_value(rc, end_date) ==
    LET cash_flows == get_cash_flows(rc, end_date)
        final_value == get_final_value(rc, end_date)
    IN IF final_value.raised # "none" THEN final_value
       ELSE IF DecLt(DecZero, final_value.value)
            THEN ReturnedFlows(SortFlows(Append(cash_flows, <<end_date, final_value.value>>)))
            ELSE ReturnedFlows(SortFlows(cash_flows))

\* the Decimal values that are not finite
Infinity == [special |-> "Infinity"]
NaN == [special |-> "NaN"]

\* what scipy.optimize.newton does with xnpv: it returns a finite rate, it
\* returns a value that is not finite, or it raises (RuntimeError when the
\* iterations are used up or the derivative is zero, or another error)
NewtonOutcomes ==
    {[kind |-> "root", rate |-> r] : r \in {Dec(1, 1), Dec(0 - 25, 2)}}
    \cup {[kind |-> k, rate |-> DecZero] :
             k \in {"inf", "nan", "RuntimeError", "OverflowError"}}

\* whether _xirr gets as far as calling newton: only the empty list returns
\* before the call
xirr_calls_newton(cash_flows) == Len(cash_flows) # 0

\* _xirr: Decimal(str(rate)) of whatever newton returns, 0 when it raises
xirr(cash_flows, newton) ==
    IF Len(cash_flows) = 0 THEN Returned(DecZero)
    ELSE CASE newton.kind = "root" -> Returned(newton.rate)
           [] newton.kind = "inf" -> Returned(Infinity)
           [] newton.kind = "nan" -> Returned(NaN)
           [] OTHER -> Returned(DecZero)

calculate_annualized_return(rc, evaluation_date, newton) ==
    IF Len(rc.trades) = 0 THEN Returned(DecZero)
    ELSE LET cash_flows == get_cash_flows_with_final_value(rc, evaluation_date)
         IN IF cash_flows.raised # "none" THEN cash_flows
            ELSE IF Len(cash_flows.flows) = 0 THEN Returned(DecZero)
            ELSE xirr(cash_flows.flows, newton)

-----------------------------------------------------------------------------
(* Python floats of the decision engine, modelled as exact rationals n/d    *)
(* with d > 0 in lowest terms (rounding is left out).                       *)

Abs(x) == IF x < 0 THEN 0 - x ELSE x

RECURSIVE Gcd(_, _)
Gcd(a, b) == IF b = 0 THEN a ELSE Gcd(b, a % b)

Rat(n, d) ==
    LET sn == IF d < 0 THEN 0 - n ELSE n
        sd == Abs(d)
        g == Gcd(Abs(sn), sd)
    IN [n |-> sn \div g, d |-> sd \div g]

RatInt(k) == [n |-> k, d |-> 1]

\* the arithmetic cancels common factors before it multiplies
Lcm(a, b) == (a \div Gcd(a, b)) * b
RatNeg(a) == [n |-> 0 - a.n, d |-> a.d]
RatAdd(a, b) ==
    IF a.n = 0 THEN b
    ELSE IF b.n = 0 THEN a
    ELSE LET d == Lcm(a.d, b.d)
         IN Rat(a.n * (d \div a.d) + b.n * (d \div b.d), d)
RatSub(a, b) == RatAdd(a, RatNeg(b))
RatMul(a, b) ==
    IF a.n = 0 \/ b.n = 0 THEN RatInt(0)
    ELSE LET g1 == Gcd(Abs(a.n), b.d)
             g2 == Gcd(Abs(b.n), a.d)
         IN Rat((a.n \div g1) * (b.n \div g2), (a.d \div g2) * (b.d \div g1))
RatDiv(a, b) ==
    IF b.n < 0 THEN RatMul(a, [n |-> 0 - b.d, d |-> 0 - b.n])
    ELSE RatMul(a, [n |-> b.d, d |-> b.n])
RatLe(a, b) == RatSub(a, b).n <= 0
RatLt(a, b) == RatSub(a, b).n < 0

RECURSIVE RatPow(_, _)
RatPow(a, k) == IF k = 0 THEN RatInt(1) ELSE RatMul(a, RatPow(a, k - 1))

\* float(Decimal)
Float(x) == Rat(x.c, Pow10(x.e))

RECURSIVE RatSum(_, _)
RatSum(xs, i) == IF i > Len(xs) THEN RatInt(0) ELSE RatAdd(xs[i], RatSum(xs, i + 1))

-----------------------------------------------------------------------------
(* Optional values: Python None or a Decimal *)

None == [has |-> FALSE, v |-> DecZero]
Some(x) == [has |-> TRUE, v |-> x]
\* the truth value of an optional Decimal: None and 0 are false
Truthy(o) == o.has /\ DecTruthy(o.v)

-----------------------------------------------------------------------------
(* FinancialReport.calculate_fcff *)

\* what a call returned (an optional Decimal) or raised
FcffResult(raised, o) == [raised |-> raised, fcff |-> o]

\* Decimal division, for the quotients that end within DivDigits digits
DivDigits == 4

RECURSIVE DivScale(_, _, _)
DivScale(n, d, k) ==
    IF k >= DivDigits \/ (n * Pow10(k)) % d = 0 THEN k ELSE DivScale(n, d, k + 1)

DecDiv(a, b) ==
    LET e == MaxOf(a.e, b.e)
        n == Lift(a, e)
        d == Lift(b, e)
        k == DivScale(Abs(n), Abs(d), 0)
        q == (Abs(n) * Pow10(k)) \div Abs(d)
    IN Dec(IF (n < 0) = (d < 0) THEN q ELSE 0 - q, k)

calculate_fcff(report) ==
    IF ~report.cash_flow_statement.present \/ ~report.financial_indicators.present
    THEN FcffResult("none", None)
    ELSE LET operating_cash_flow == report.cash_flow_statement.n_cashflow_act
             daa == IF report.financial_indicators.daa.has
                    THEN report.financial_indicators.daa.v ELSE DecZero
             financial_cost == IF report.cash_flow_statement.finan_exp.has
                               THEN report.cash_flow_statement.finan_exp.v ELSE DecZero
             exc == report.balance_sheet.total_hldr_eqy_exc_min_int
             inc == report.balance_sheet.total_hldr_eqy_inc_min_int
         IN IF ~operating_cash_flow.has THEN FcffResult("none", None)
            ELSE IF ~report.balance_sheet.present THEN FcffResult("AttributeError", None)
            ELSE IF exc.has /\ inc.has /\ ~DecTruthy(inc.v)
            THEN FcffResult("DivisionByZero", None)
            ELSE LET rate == IF exc.has /\ inc.has THEN DecDiv(exc.v, inc.v) ELSE DecInt(1)
                 IN FcffResult("none",
                        Some(DecMul(DecSub(DecSub(operating_cash_flow.v, daa), financial_cost),
                                    rate)))

-----------------------------------------------------------------------------
(* StockTrader *)

RoeThreshold == 15
kYearCount == 3
FcffYears == 5
RoeYears == 5
PeWindowDays == 1825

discount_rate == Rat(5, 100)
risk_free_rate == Rat(5, 100)
BuyRatio == Rat(5, 10)
SellRatio == Rat(13, 10)
NeutralRatio == RatInt(1)

\* sorted(..., key=date, reverse=True): stable, latest first
SortedLatestFirst(s, dates) == SortedBy(s, [i \in 1..Len(s) |-> 0 - dates[i]])

\* a constructor that also keeps the reports announced on the target date
StockTrader_AnnouncedOnDay(daily_indicators, daily_quotes, financial_reports, target_date) ==
    LET IndDue(x) == x.trade_date <= target_date
        RepDue(r) == /\ r.report_date <= target_date
                     /\ r.ann_date <= target_date
                     /\ r.end_type = "4"
                     /\ r.financial_indicators.present
                     /\ r.income_statement.present
                     /\ r.cash_flow_statement.present
        inds == SelectSeq(daily_indicators, IndDue)
        qs == SelectSeq(daily_quotes, IndDue)
        reps == SelectSeq(financial_reports, RepDue)
    IN [target_date |-> target_date,
        daily_indicators |-> SortedLatestFirst(inds, [i \in 1..Len(inds) |-> inds[i].trade_date]),
        daily_quotes |-> SortedLatestFirst(qs, [i \in 1..Len(qs) |-> qs[i].trade_date]),
        financial_reports |-> SortedLatestFirst(reps, [i \in 1..Len(reps) |-> reps[i].report_date])]

\* StockTrader.__init__
StockTrader(daily_indicators, daily_quotes, financial_reports, target_date) ==
    LET IndDue(x) == x.trade_date <= target_date
        RepDue(r) == /\ r.report_date <= target_date
                     /\ r.ann_date < target_date
                     /\ r.end_type = "4"
                     /\ r.financial_indicators.present
                     /\ r.income_statement.present
                     /\ r.cash_flow_statement.present
        inds == SelectSeq(daily_indicators, IndDue)
        qs == SelectSeq(daily_quotes, IndDue)
        reps == SelectSeq(financial_reports, RepDue)
    IN [target_date |-> target_date,
        daily_indicators |-> SortedLatestFirst(inds, [i \in 1..Len(inds) |-> inds[i].trade_date]),
        daily_quotes |-> SortedLatestFirst(qs, [i \in 1..Len(qs) |-> qs[i].trade_date]),
        financial_reports |-> SortedLatestFirst(reps, [i \in 1..Len(reps) |-> reps[i].report_date])]

\* no cut: every annual report is screened
Head5_All(s) == s

Head5(s) == SubSeq(s, 1, IF Len(s) < RoeYears THEN Len(s) ELSE RoeYears)

RoeOk(report) ==
    /\ Truthy(report.financial_indicators.roe)
    /\ DecLe(DecInt(RoeThreshold), report.financial_indicators.roe.v)

\* _check_roe_condition: the value returned and the roe_debug_info it leaves
check_roe_condition(tr) ==
    LET IsAnnual(r) == r.end_type = "4"
        annual_reports == Head5(SelectSeq(tr.financial_reports, IsAnnual))
    IN IF Len(annual_reports) < RoeYears
       THEN [qualified |-> FALSE, roe_debug_info |-> "fewer than five annual reports"]
       ELSE IF \A i \in 1..Len(annual_reports) : RoeOk(annual_reports[i])
            THEN [qualified |-> TRUE, roe_debug_info |-> "ROE condition met"]
            ELSE [qualified |-> FALSE, roe_debug_info |-> "ROE condition not met"]

\* _check_pe_percentile
check_pe_percentile(tr) ==
    IF Len(tr.daily_indicators) = 0 THEN RatInt(1)
    ELSE LET five_years_ago == tr.target_date - PeWindowDays
             InWindow(x) == /\ x.trade_date >= five_years_ago
                            /\ Truthy(x.pe) /\ DecLt(DecZero, x.pe.v)
             historical_pe == SelectSeq(tr.daily_indicators, InWindow)
             current_pe == tr.daily_indicators[1].pe
         IN IF Len(historical_pe) = 0 THEN RatInt(1)
            ELSE IF ~Truthy(current_pe) THEN RatInt(1)
            ELSE Rat(Cardinality({i \in 1..Len(historical_pe) :
                                     DecLe(historical_pe[i].pe.v, current_pe.v)}),
                     Len(historical_pe))

\* the list growth_rates of _calculate_growth_rate
RECURSIVE GrowthRates(_, _)
GrowthRates(historical_fcff, i) ==
    IF i >= Len(historical_fcff) THEN <<>>
    ELSE IF RatLt(RatInt(0), historical_fcff[i + 1])
         THEN <<RatSub(RatDiv(historical_fcff[i], historical_fcff[i + 1]), RatInt(1))>>
              \o GrowthRates(historical_fcff, i + 1)
         ELSE GrowthRates(historical_fcff, i + 1)

Mean(xs) == RatDiv(RatSum(xs, 1), RatInt(Len(xs)))

\* the population variance: the square of std
Variance(xs) ==
    LET mean == Mean(xs)
    IN RatDiv(RatSum([i \in 1..Len(xs) |-> RatMul(RatSub(xs[i], mean), RatSub(xs[i], mean))], 1),
              RatInt(Len(xs)))

\* a filter at one standard deviation
WithinTwoStd_OneStd(x, mean, var) ==
    RatLe(RatMul(RatSub(x, mean), RatSub(x, mean)), var)

\* abs(x - mean) <= 2 * std, compared on the squares
WithinTwoStd(x, mean, var) ==
    RatLe(RatMul(RatSub(x, mean), RatSub(x, mean)), RatMul(RatInt(4), var))

calculate_growth_rate(historical_fcff) ==
    LET growth_rates == GrowthRates(historical_fcff, 1)
    IN IF Len(growth_rates) = 0 THEN RatInt(0)
       ELSE LET mean == Mean(growth_rates)
                var == Variance(growth_rates)
                Normal(x) == WithinTwoStd(x, mean, var)
                normal_rates == SelectSeq(growth_rates, Normal)
            IN IF Len(normal_rates) = 0 THEN mean ELSE Mean(normal_rates)

\* what _calculate_dcf_ratio returned or raised, and the
\* dcf_ratio_debug_info it leaves behind ("" is the empty string)
DcfResult(raised, ratio, info) ==
    [raised |-> raised, ratio |-> ratio, dcf_ratio_debug_info |-> info]

\* historical_fcff: float(fcff if fcff else 0) of the first five reports;
\* the first report whose calculate_fcff raises ends the loop
HistoricalFcffError(financial_reports) ==
    LET n == IF Len(financial_reports) < FcffYears THEN Len(financial_reports) ELSE FcffYears
        bad == {i \in 1..n : calculate_fcff(financial_reports[i]).raised # "none"}
    IN IF bad = {} THEN "none"
       ELSE calculate_fcff(financial_reports[CHOOSE i \in bad : \A j \in bad : i <= j]).raised

HistoricalFcff(financial_reports) ==
    LET n == IF Len(financial_reports) < FcffYears THEN Len(financial_reports) ELSE FcffYears
    IN [i \in 1..n |->
           LET fcff == calculate_fcff(financial_reports[i]).fcff
           IN IF Truthy(fcff) THEN Float(fcff.v) ELSE RatInt(0)]

\* present_value: the years 1 .. kYearCount - 1
RECURSIVE PresentValue(_, _, _)
PresentValue(fcff, growth_rate, i) ==
    IF i >= kYearCount THEN RatInt(0)
    ELSE RatAdd(RatDiv(RatMul(fcff, RatPow(RatAdd(RatInt(1), growth_rate), i)),
                       RatPow(RatAdd(RatInt(1), discount_rate), i)),
                PresentValue(fcff, growth_rate, i + 1))

TerminalValuePv(fcff, growth_rate) ==
    RatDiv(RatDiv(RatMul(fcff, RatPow(RatAdd(RatInt(1), growth_rate), 3)), risk_free_rate),
           RatPow(RatAdd(RatInt(1), discount_rate), kYearCount))

TotalValue(fcff, growth_rate) ==
    RatAdd(PresentValue(fcff, growth_rate, 1), TerminalValuePv(fcff, growth_rate))

\* _calculate_dcf_ratio
calculate_dcf_ratio(tr) ==
    IF Len(tr.financial_reports) = 0 \/ Len(tr.daily_quotes) = 0
    THEN DcfResult("none", NeutralRatio, "no financial reports or no daily quotes")
    ELSE IF Len(tr.daily_indicators) = 0
    THEN DcfResult("IndexError", NeutralRatio, "")
    ELSE LET latest_report == tr.financial_reports[1]
             latest_indicator == tr.daily_indicators[1]
         IN IF ~latest_report.income_statement.present
            THEN DcfResult("none", NeutralRatio, "no income statement")
            ELSE IF ~Truthy(latest_report.income_statement.n_income_attr_p)
            THEN DcfResult("none", NeutralRatio, "no income statement item")
            ELSE IF HistoricalFcffError(tr.financial_reports) # "none"
            THEN DcfResult(HistoricalFcffError(tr.financial_reports), NeutralRatio, "")
            ELSE LET historical_fcff == HistoricalFcff(tr.financial_reports)
                 IN IF Len(historical_fcff) < 2
                    THEN DcfResult("none", NeutralRatio, "not enough cash flow history")
                    ELSE LET growth_rate == RatDiv(calculate_growth_rate(historical_fcff),
                                                   RatInt(2))
                             latest == calculate_fcff(latest_report).fcff
                         IN IF ~latest.has
                            THEN DcfResult("TypeError", NeutralRatio, "")
                            ELSE IF ~latest_indicator.total_mv.has
                            THEN DcfResult("TypeError", NeutralRatio, "")
                            ELSE LET total_value == TotalValue(Float(latest.v), growth_rate)
                                     current_market_value ==
                                         Float(DecMul(latest_indicator.total_mv.v, DecInt(10000)))
                                 IN IF RatLe(total_value, RatInt(0))
                                    THEN DcfResult("none", NeutralRatio, "")
                                    ELSE DcfResult("none",
                                             RatDiv(current_market_value, total_value), "")

\* the members of the enumeration TradeAction
TradeAction(name) == [cls |-> "TradeAction", name |-> name]

TradeActionResult(action, roe_debug_info, dcf_ratio_debug_info) ==
    [cls |-> "TradeActionResult", action |-> action,
     roe_debug_info |-> roe_debug_info, dcf_ratio_debug_info |-> dcf_ratio_debug_info]

\* Python's x == member for a member of TradeAction: the enumeration and
\* TradeActionResult define no __eq__, so only the member itself is equal
PyEq(x, member) == x.cls = "TradeAction" /\ x.name = member.name

\* the decision rule of get_action on the two screens
Decide(roe_qualified, dcf_ratio) ==
    IF roe_qualified /\ RatLe(dcf_ratio, BuyRatio) THEN TradeAction("BUY")
    ELSE IF ~roe_qualified \/ RatLe(SellRatio, dcf_ratio) THEN TradeAction("SELL")
    ELSE TradeAction("HOLD")

\* what get_action returned or raised
ActionOutcome(raised, result) == [raised |-> raised, result |-> result]

\* a decision that also sells when the PE percentile is 0.85 or more
get_action_PeGate(tr) ==
    LET roe == check_roe_condition(tr)
        pe_percentile == check_pe_percentile(tr)
        dcf == calculate_dcf_ratio(tr)
    IN IF dcf.raised # "none"
       THEN ActionOutcome(dcf.raised,
                TradeActionResult(TradeAction("HOLD"), roe.roe_debug_info, ""))
       ELSE ActionOutcome("none",
                TradeActionResult(IF RatLe(Rat(85, 100), pe_percentile)
                                  THEN Decide(FALSE, dcf.ratio)
                                  ELSE Decide(roe.qualified, dcf.ratio),
                                  roe.roe_debug_info, dcf.dcf_ratio_debug_info))

get_action(tr) ==
    LET roe == check_roe_condition(tr)
        pe_percentile == check_pe_percentile(tr)
        dcf == calculate_dcf_ratio(tr)
    IN IF dcf.raised # "none"
       THEN ActionOutcome(dcf.raised,
                TradeActionResult(TradeAction("HOLD"), roe.roe_debug_info, ""))
       ELSE ActionOutcome("none",
                TradeActionResult(Decide(roe.qualified, dcf.ratio),
                                  roe.roe_debug_info, dcf.dcf_ratio_debug_info))

-----------------------------------------------------------------------------
(* StockBacktester *)

InitialCapital == 1000000
LotSize == 100

\* _get_price: the midpoint of open and close of the first quote of the date
\* (a midpoint that a float holds exactly), or no price
HasPrice(daily_quotes, d) == \E i \in 1..Len(daily_quotes) : daily_quotes[i].trade_date = d

get_price(daily_quotes, d) ==
    LET first == CHOOSE i \in 1..Len(daily_quotes) :
                     /\ daily_quotes[i].trade_date = d
                     /\ \A j \in 1..(i - 1) : daily_quotes[j].trade_date # d
    IN DecMul(DecAdd(daily_quotes[first].open, daily_quotes[first].close), Dec(5, 1))

\* a number of shares rounded up to the next lot
LotShares_RoundedUp(yesterday_capital, price) ==
    LET e == MaxOf(yesterday_capital.e, price.e)
        n == Lift(yesterday_capital, e)
        d == Lift(price, e) * LotSize
    IN IF n <= 0 THEN 0 ELSE ((n + d - 1) \div d) * LotSize

\* int(yesterday_capital / Decimal(price) / 100) * 100, for a positive price
LotShares(yesterday_capital, price) ==
    LET e == MaxOf(yesterday_capital.e, price.e)
        n == Lift(yesterday_capital, e)
        d == Lift(price, e) * LotSize
        lots == IF n >= 0 THEN n \div d ELSE 0 - ((0 - n) \div d)
    IN lots * LotSize

BacktestTrade(d, type, price, shares) ==
    [trade_date |-> d, trade_type |-> type, trade_price |-> price,
     trade_shares |-> DecInt(shares), trade_amount |-> DecMul(price, DecInt(shares)),
     commission |-> DecZero, tax |-> DecZero]

\* a trade list that gets a buy of one lot whatever the decision
TradesAfter_AlwaysTrades(trs, action, d, price, yesterday_position, yesterday_capital) ==
    Append(trs, BacktestTrade(d, "buy", price, LotSize))

\* the trade list after the decision of the day: action is what get_action
\* returned, compared with the members of TradeAction as Python compares them
TradesAfter(trs, action, d, price, yesterday_position, yesterday_capital) ==
    IF PyEq(action, TradeAction("BUY"))
    THEN LET shares == LotShares(yesterday_capital, price)
         IN IF shares > 0 THEN Append(trs, BacktestTrade(d, "buy", price, shares)) ELSE trs
    ELSE IF PyEq(action, TradeAction("SELL")) /\ DecLt(DecZero, yesterday_position)
    THEN Append(trs, [BacktestTrade(d, "sell", price, 0) EXCEPT
                          !.trade_shares = yesterday_position,
                          !.trade_amount = DecMul(price, yesterday_position)])
    ELSE trs

TodayCapital(action, price, yesterday_position, yesterday_capital) ==
    IF PyEq(action, TradeAction("BUY"))
    THEN LET shares == LotShares(yesterday_capital, price)
         IN IF shares > 0 THEN DecSub(yesterday_capital, DecMul(price, DecInt(shares)))
            ELSE yesterday_capital
    ELSE IF PyEq(action, TradeAction("SELL")) /\ DecLt(DecZero, yesterday_position)
    THEN DecAdd(yesterday_capital, DecMul(price, yesterday_position))
    ELSE yesterday_capital

-----------------------------------------------------------------------------
(* The records given to the ledger *)

TradeRecord(d, type, shares, price, commission, tax) ==
    [trade_date |-> d, trade_type |-> type, trade_price |-> DecInt(price),
     trade_shares |-> DecInt(shares), trade_amount |-> DecInt(price * shares),
     commission |-> DecInt(commission), tax |-> DecInt(tax)]

DailyQuote(d, open, close) == [trade_date |-> d, open |-> open, close |-> close]

Dividend(proc, base, bo, co, cash, ex, pay) ==
    [div_proc |-> proc, base_date |-> base, stk_bo_rate |-> bo, stk_co_rate |-> co,
     cash_div |-> cash, ex_date |-> ex, pay_date |-> pay]

BoundedSeq(S, n) == UNION {[1..k -> S] : k \in 0..n}

TradeChoices ==
    {TradeRecord(d, "buy", 100, 10, 5, 0) : d \in Days}
    \cup {TradeRecord(d, "sell", 100, 12, 3, 6) : d \in Days}

\* an executed action with bonus, transfer and cash, paid two days after its
\* base date; an executed cash-only action with no payment date; a proposed
\* action; an executed action with no base date
DividendChoices ==
    {Dividend("executed", base, Dec(2, 1), Dec(3, 1), Dec(5, 1), base + 1, base + 2) : base \in Days}
    \cup {Dividend("executed", base, DecZero, DecZero, Dec(5, 1), base + 1, NoDate) : base \in Days}
    \cup {Dividend("proposed", base, Dec(2, 1), Dec(3, 1), Dec(5, 1), base + 1, base + 2) : base \in Days}
    \cup {Dividend("executed", NoDate, Dec(2, 1), Dec(3, 1), Dec(5, 1), 2, 3)}

\* quotes on the first and the last day only
RECURSIVE QuotesOn(_, _)
QuotesOn(S, d) ==
    IF d > MaxDay THEN <<>>
    ELSE (IF d \in S THEN <<DailyQuote(d, DecInt(10), DecInt(12))>> ELSE <<>>)
         \o QuotesOn(S, d + 1)

QuoteChoices == {QuotesOn({1, MaxDay}, 1)}

\* the records of tests/test_return_calculator.py, on days 1 (buy), 2 (base,
\* ex and payment date of the action) and 3 (sell)
SampleTrades ==
    <<TradeRecord(1, "buy", 1000, 10, 5, 0), TradeRecord(3, "sell", 500, 12, 3, 6)>>
SampleQuotes ==
    <<DailyQuote(1, DecInt(10), DecInt(10)), DailyQuote(3, Dec(118, 1), DecInt(12))>>
SampleDividends ==
    <<Dividend("executed", 2, Dec(2, 1), Dec(3, 1), Dec(5, 1), 2, 2)>>

IsSample == trades = SampleTrades /\ quotes = SampleQuotes /\ dividends = SampleDividends

\* a ledger of five shares bought on the base date of an action
OddLotTrades == <<TradeRecord(1, "buy", 5, 10, 5, 0)>>
OddLotDividends == <<Dividend("executed", 1, Dec(2, 1), Dec(3, 1), Dec(5, 1), 2, 3)>>

-----------------------------------------------------------------------------
(* The records given to the decision engine *)

IncomeStatement(n_income_attr_p) == [present |-> TRUE, n_income_attr_p |-> n_income_attr_p]
BalanceSheet(exc, inc) ==
    [present |-> TRUE, total_hldr_eqy_exc_min_int |-> exc, total_hldr_eqy_inc_min_int |-> inc]
CashFlowStatement(n_cashflow_act, finan_exp) ==
    [present |-> TRUE, n_cashflow_act |-> n_cashflow_act, finan_exp |-> finan_exp]
FinancialIndicators(roe, daa) == [present |-> TRUE, roe |-> roe, daa |-> daa]

\* a statement that is None
NoIncomeStatement == [present |-> FALSE, n_income_attr_p |-> None]
NoBalanceSheet ==
    [present |-> FALSE, total_hldr_eqy_exc_min_int |-> None, total_hldr_eqy_inc_min_int |-> None]
NoCashFlowStatement == [present |-> FALSE, n_cashflow_act |-> None, finan_exp |-> None]
NoFinancialIndicators == [present |-> FALSE, roe |-> None, daa |-> None]

FinancialReport(report_date, ann_date, end_type, income, balance, cash, ind) ==
    [report_date |-> report_date, ann_date |-> ann_date, end_type |-> end_type,
     income_statement |-> income, balance_sheet |-> balance,
     cash_flow_statement |-> cash, financial_indicators |-> ind]

DailyIndicator(d, pe, total_mv) == [trade_date |-> d, pe |-> pe, total_mv |-> total_mv]

\* an annual report announced on its report date, with ROE 20, net profit
\* 100 and a free cash flow of 1
PlainReport(d) ==
    FinancialReport(d, d, "4", IncomeStatement(Some(DecInt(100))), BalanceSheet(None, None),
                    CashFlowStatement(Some(DecInt(1)), None),
                    FinancialIndicators(Some(DecInt(20)), None))

\* the ways one report departs from the plain one
OddKinds ==
    {"low roe", "no roe", "negative flow", "no flow", "double flow", "no balance sheet",
     "no net profit", "announced late", "quarterly", "adjusted"}

OddReport(d, kind) ==
    LET r == PlainReport(d)
    IN CASE kind = "low roe" ->
              [r EXCEPT !.financial_indicators = FinancialIndicators(Some(DecInt(14)), None)]
         [] kind = "no roe" ->
              [r EXCEPT !.financial_indicators = FinancialIndicators(None, None)]
         [] kind = "negative flow" ->
              [r EXCEPT !.cash_flow_statement = CashFlowStatement(Some(DecInt(0 - 1)), None)]
         [] kind = "no flow" ->
              [r EXCEPT !.cash_flow_statement = CashFlowStatement(None, None)]
         [] kind = "double flow" ->
              [r EXCEPT !.cash_flow_statement = CashFlowStatement(Some(DecInt(2)), None)]
         [] kind = "no balance sheet" -> [r EXCEPT !.balance_sheet = NoBalanceSheet]
         [] kind = "no net profit" -> [r EXCEPT !.income_statement = IncomeStatement(None)]
         [] kind = "announced late" -> [r EXCEPT !.ann_date = 2]
         [] kind = "quarterly" -> [r EXCEPT !.end_type = "1"]
         [] kind = "adjusted" ->
              [r EXCEPT !.cash_flow_statement = CashFlowStatement(Some(DecInt(3)), Some(Dec(5, 1))),
                        !.financial_indicators = FinancialIndicators(Some(DecInt(15)), Some(Dec(5, 1))),
                        !.balance_sheet = BalanceSheet(Some(DecInt(50)), Some(DecInt(100)))]

\* the ways the later of two odd reports departs
PairKinds == {"low roe", "double flow", "announced late"}

\* n yearly reports, the oldest first, dated on the days -n .. -1; at most two
\* of them depart from the plain report
ReportLists(n) ==
    {[i \in 1..n |-> IF i \in DOMAIN odd THEN OddReport(i - n - 1, odd[i])
                     ELSE PlainReport(i - n - 1)] :
        odd \in {f \in UNION {[S -> OddKinds] :
                                 S \in {T \in SUBSET (1..n) : \E i, j \in 0..n : T \subseteq {i, j}}} :
                    \A i, j \in DOMAIN f : i < j => f[j] \in PairKinds}}

\* an annual report for a period that ends on the last day, announced on the
\* first, with ROE 14
AheadReport ==
    [PlainReport(MaxDay) EXCEPT !.ann_date = 1,
                                !.financial_indicators = FinancialIndicators(Some(DecInt(14)), None)]

\* plain reports, at most one of them announced late, followed by the report
\* for the period that has not ended
AheadLists ==
    {Append([i \in 1..n |-> IF i = k THEN OddReport(i - n - 1, "announced late")
                            ELSE PlainReport(i - n - 1)], AheadReport) :
        n \in 0..MaxReports, k \in 0..MaxReports}

ReportChoices == UNION {ReportLists(n) : n \in 0..MaxReports} \cup AheadLists

\* market values (in units of 10000) of 5, 15 and 30, or none
MarketValues == {Some(Dec(5, 4)), Some(Dec(15, 4)), Some(Dec(30, 4)), None}

IndicatorChoices ==
    {<<>>}
    \cup {<<DailyIndicator(1, Some(DecInt(10)), mv)>> : mv \in MarketValues}
    \cup {<<DailyIndicator(2, Some(DecInt(10)), Some(Dec(5, 4)))>>,
          <<DailyIndicator(1, Some(DecInt(10)), Some(Dec(5, 4))),
            DailyIndicator(MaxDay, Some(DecInt(20)), Some(Dec(30, 4)))>>}

TraderQuoteChoices == QuoteChoices \cup {<<>>}

-----------------------------------------------------------------------------
(* The ledger: a ReturnCalculator over given records, and its queries.  No   *)
(* query changes the calculator, so the states reached by any sequence of   *)
(* queries are those reached by one query on the calculator as built; each  *)
(* behaviour of Spec is one query.                                          *)

NoCall == [op |-> "none", date |-> NoDate]

\* no backtest is under way
\* nothing of the synchronisation or of the provider calls is in use
NoService ==
    /\ sync_tasks = <<>> /\ now = 0
    /\ api = <<>> /\ attempt = 0
    /\ log = <<>>

NotRunning == cur_date = NoDate /\ results = <<>> /\ pc = "idle" /\ NoService

rc == ReturnCalculator(trades, quotes, dividends)

\* the trade lists of the ledger in every order; those of more than two trades
\* in order of date only
LedgerTrades ==
    {t \in BoundedSeq(TradeChoices, MaxTrades) :
        Len(t) > 2 => \A i \in 1..(Len(t) - 1) : t[i].trade_date <= t[i + 1].trade_date}

\* the action lists of the ledger; those of more than one action hold
\* executed actions with a base date only
LedgerDividends ==
    {a \in BoundedSeq(DividendChoices, MaxDivs) :
        Len(a) > 1 => \A i \in 1..Len(a) : a[i].div_proc = "executed" /\ a[i].base_date # NoDate}

Init ==
    /\ \/ /\ trades \in LedgerTrades
          /\ dividends \in LedgerDividends
          /\ quotes \in QuoteChoices
       \/ /\ trades = OddLotTrades
          /\ dividends = OddLotDividends
          /\ quotes \in QuoteChoices
       \/ /\ trades = SampleTrades
          /\ dividends = SampleDividends
          /\ quotes = SampleQuotes
    /\ indicators = <<>> /\ reports = <<>> /\ list_date = NoDate
    /\ NotRunning
    /\ call = NoCall
    /\ ret = Returned(DecZero)

CalculatePositionShares(d) ==
    /\ call = NoCall
    /\ call' = [op |-> "calculate_position_shares", date |-> d]
    /\ ret' = Returned(calculate_position_shares(rc, d))
    /\ UNCHANGED <<dataVars, runVars, otherVars>>

GetFinalValue(d) ==
    /\ call = NoCall
    /\ call' = [op |-> "get_final_value", date |-> d]
    /\ ret' = get_final_value(rc, d)
    /\ UNCHANGED <<dataVars, runVars, otherVars>>

GetCashFlows(d) ==
    /\ call = NoCall
    /\ call' = [op |-> "get_cash_flows", date |-> d]
    /\ ret' = ReturnedFlows(get_cash_flows(rc, d))
    /\ UNCHANGED <<dataVars, runVars, otherVars>>

CalculateNetCashFlowValue(d) ==
    /\ call = NoCall
    /\ call' = [op |-> "calculate_net_cash_flow_value", date |-> d]
    /\ ret' = Returned(calculate_net_cash_flow_value(rc, d))
    /\ UNCHANGED <<dataVars, runVars, otherVars>>

GetCashFlowsWithFinalValue(d) ==
    /\ call = NoCall
    /\ call' = [op |-> "_get_cash_flows_with_final_value", date |-> d]
    /\ ret' = get_cash_flows_with_final_value(rc, d)
    /\ UNCHANGED <<dataVars, runVars, otherVars>>

Next ==
    \E d \in Days :
        \/ CalculatePositionShares(d)
        \/ GetFinalValue(d)
        \/ GetCashFlows(d)
        \/ CalculateNetCashFlowValue(d)
        \/ GetCashFlowsWithFinalValue(d)

Spec == Init /\ [][Next]_vars

-----------------------------------------------------------------------------
(* The decision engine: a StockTrader is constructed from the data for a    *)
(* target date and asked once                                               *)

trader(d) == StockTrader(indicators, quotes, reports, d)

TraderInit ==
    /\ trades = <<>> /\ dividends = <<>>
    /\ quotes \in TraderQuoteChoices
    /\ indicators \in IndicatorChoices
    /\ reports \in ReportChoices
    /\ list_date = NoDate
    /\ NotRunning
    /\ call = NoCall
    /\ ret = Returned(DecZero)

CheckRoeCondition(d) ==
    /\ call = NoCall
    /\ call' = [op |-> "_check_roe_condition", date |-> d]
    /\ ret' = check_roe_condition(trader(d))
    /\ UNCHANGED <<dataVars, runVars, otherVars>>

CalculateDcfRatio(d) ==
    /\ call = NoCall
    /\ call' = [op |-> "_calculate_dcf_ratio", date |-> d]
    /\ ret' = calculate_dcf_ratio(trader(d))
    /\ UNCHANGED <<dataVars, runVars, otherVars>>

GetAction(d) ==
    /\ call = NoCall
    /\ call' = [op |-> "get_action", date |-> d]
    /\ ret' = get_action(trader(d))
    /\ UNCHANGED <<dataVars, runVars, otherVars>>

TraderNext ==
    \E d \in Days :
        \/ CheckRoeCondition(d)
        \/ CalculateDcfRatio(d)
        \/ GetAction(d)

TraderSpec == TraderInit /\ [][TraderNext]_vars

-----------------------------------------------------------------------------
(* The annualized return: the ledger is asked once, and the solver ends in  *)
(* one of its outcomes                                                      *)

XirrInit ==
    /\ \/ /\ trades \in BoundedSeq(TradeChoices, MaxTrades)
          /\ dividends \in {<<>>, SampleDividends}
          /\ quotes \in QuoteChoices
       \/ /\ trades = SampleTrades
          /\ dividends = SampleDividends
          /\ quotes = SampleQuotes
    /\ indicators = <<>> /\ reports = <<>> /\ list_date = NoDate
    /\ NotRunning
    /\ call = NoCall
    /\ ret = Returned(DecZero)

\* _xirr on the cash flows with the final value of a date
Xirr(d, newton) ==
    /\ call = NoCall
    /\ get_cash_flows_with_final_value(rc, d).raised = "none"
    /\ call' = [op |-> "_xirr", date |-> d, newton |-> newton.kind,
                cash_flows |-> get_cash_flows_with_final_value(rc, d).flows,
                solved |-> xirr_calls_newton(get_cash_flows_with_final_value(rc, d).flows)]
    /\ ret' = xirr(get_cash_flows_with_final_value(rc, d).flows, newton)
    /\ UNCHANGED <<dataVars, runVars, otherVars>>

CalculateAnnualizedReturn(d, newton) ==
    /\ call = NoCall
    /\ call' = [op |-> "calculate_annualized_return", date |-> d, newton |-> newton.kind]
    /\ ret' = calculate_annualized_return(rc, d, newton)
    /\ UNCHANGED <<dataVars, runVars, otherVars>>

XirrNext ==
    \E d \in Days, newton \in NewtonOutcomes :
        \/ Xirr(d, newton)
        \/ CalculateAnnualizedReturn(d, newton)

XirrSpec == XirrInit /\ [][XirrNext]_vars

-----------------------------------------------------------------------------
(* The growth-rate estimation on its own: _calculate_growth_rate reads only  *)
(* its argument, a list of floats, latest first                             *)

FcffValues == {0, 1, 2}

\* the cash flows whose period-over-period rates are 0.1, 0.1, 0.1, 5.0
SampleFcff == <<RatInt(7986), RatInt(7260), RatInt(6600), RatInt(6000), RatInt(1000)>>

\* years with a loss
LossFcff == {<<RatInt(2), RatInt(-1), RatInt(1)>>, <<RatInt(-1), RatInt(2), RatInt(-1)>>}

FcffChoices ==
    {[i \in 1..Len(h) |-> RatInt(h[i])] : h \in BoundedSeq(FcffValues, MaxFcff)}
    \cup {SampleFcff} \cup LossFcff

GrowthInit ==
    /\ trades = <<>> /\ dividends = <<>> /\ quotes = <<>>
    /\ indicators = <<>> /\ reports = <<>> /\ list_date = NoDate
    /\ NotRunning
    /\ call \in {[op |-> "none", date |-> NoDate, historical_fcff |-> h] : h \in FcffChoices}
    /\ ret = Returned(DecZero)

CalculateGrowthRate ==
    /\ call.op = "none"
    /\ call' = [call EXCEPT !.op = "_calculate_growth_rate"]
    /\ ret' = Returned(calculate_growth_rate(call.historical_fcff))
    /\ UNCHANGED <<dataVars, runVars, otherVars>>

GrowthNext == CalculateGrowthRate

GrowthSpec == GrowthInit /\ [][GrowthNext]_vars

-----------------------------------------------------------------------------
(* StockBacktester.backtest_stock over the days start_date .. end_date      *)

start_date == CHOOSE d \in Days : \A other \in Days : d <= other
end_date == MaxDay

PlainReports(n) == [i \in 1..n |-> PlainReport(i - n - 1)]

\* quotes on every set of days
BacktestQuoteChoices == {QuotesOn(S, 1) : S \in SUBSET Days}

BacktestInit ==
    /\ trades = <<>>
    /\ quotes \in BacktestQuoteChoices
    /\ dividends \in {<<>>, SampleDividends}
    /\ indicators \in IndicatorChoices
    /\ reports \in {<<>>, PlainReports(RoeYears - 1), PlainReports(RoeYears)}
    /\ list_date \in Days \cup {start_date - 1}
    /\ NotRunning
    /\ call = NoCall
    /\ ret = Returned(DecZero)

\* _load_data and the clipping of the first day to the listing date
BacktestStart ==
    /\ pc = "idle"
    /\ trades' = <<>>
    /\ results' = <<>>
    /\ cur_date' = IF start_date < list_date THEN list_date ELSE start_date
    /\ pc' = "loop"
    /\ UNCHANGED <<quotes, dividends, indicators, reports, list_date, call, ret, otherVars>>

\* a day without a quote after which the loop goes back a day
SkipDay_DayBefore ==
    /\ pc = "loop"
    /\ cur_date <= end_date
    /\ ~HasPrice(quotes, cur_date)
    /\ cur_date' = IF cur_date > start_date THEN cur_date - 1 ELSE cur_date + 1
    /\ UNCHANGED <<dataVars, results, pc, call, ret, otherVars>>

\* a day without a quote that is recorded with the price -1
SkipDay_Recorded ==
    /\ pc = "loop"
    /\ cur_date <= end_date
    /\ ~HasPrice(quotes, cur_date)
    /\ results' = Append(results, [date |-> cur_date, price |-> DecInt(0 - 1)])
    /\ cur_date' = cur_date + 1
    /\ UNCHANGED <<dataVars, pc, call, ret, otherVars>>

\* a day without a quote
SkipDay ==
    /\ pc = "loop"
    /\ cur_date <= end_date
    /\ ~HasPrice(quotes, cur_date)
    /\ cur_date' = cur_date + 1
    /\ UNCHANGED <<dataVars, results, pc, call, ret, otherVars>>

\* the row recorded for a processed day
ResultRow(d, price, yesterday_position, yesterday_capital, today_capital, trc, final_value, return_rate) ==
    [date |-> d, price |-> price,
     yesterday_position |-> yesterday_position, yesterday_capital |-> yesterday_capital,
     today_position |-> calculate_position_shares(trc, d), today_capital |-> today_capital,
     init_capital |-> DecInt(InitialCapital),
     net_cash_flow_value |-> calculate_net_cash_flow_value(trc, d),
     final_value |-> final_value,
     total_value |-> DecAdd(DecAdd(DecInt(InitialCapital), calculate_net_cash_flow_value(trc, d)),
                            final_value),
     return_rate |-> IF return_rate \in {Infinity, NaN} THEN return_rate
                     ELSE DecMul(return_rate, DecInt(100))]

\* a day with a quote: the decision, the trade it leads to and the row; an
\* exception of get_action, get_final_value or calculate_annualized_return
\* ends backtest_stock
ProcessDay(newton) ==
    /\ pc = "loop"
    /\ cur_date <= end_date
    /\ HasPrice(quotes, cur_date)
    /\ \E action \in {get_action(trader(cur_date))} :
       LET price == get_price(quotes, cur_date)
           yesterday_date == cur_date - 1
           yrc == ReturnCalculator(trades, quotes, dividends)
           yesterday_position == calculate_position_shares(yrc, yesterday_date)
           yesterday_capital == DecAdd(DecInt(InitialCapital),
                                       calculate_net_cash_flow_value(yrc, yesterday_date))
           new_trades == TradesAfter(trades, action.result, cur_date, price,
                                     yesterday_position, yesterday_capital)
           today_capital == TodayCapital(action.result, price,
                                         yesterday_position, yesterday_capital)
           trc == ReturnCalculator(new_trades, quotes, dividends)
           final_value == get_final_value(trc, cur_date)
           return_rate == calculate_annualized_return(trc, cur_date, newton)
       IN IF action.raised # "none"
          THEN /\ pc' = "raised"
               /\ UNCHANGED <<dataVars, cur_date, results>>
          ELSE IF final_value.raised # "none" \/ return_rate.raised # "none"
          THEN /\ pc' = "raised"
               /\ trades' = new_trades
               /\ UNCHANGED <<quotes, dividends, indicators, reports, list_date,
                              cur_date, results>>
          ELSE /\ trades' = new_trades
               /\ results' = Append(results,
                      ResultRow(cur_date, price, yesterday_position, yesterday_capital,
                                today_capital, trc, final_value.value, return_rate.value))
               /\ cur_date' = cur_date + 1
               /\ pc' = pc
               /\ UNCHANGED <<quotes, dividends, indicators, reports, list_date>>
    /\ UNCHANGED <<call, ret, otherVars>>

\* the loop is over: the cash flows are printed and the rows returned
BacktestFinish ==
    /\ pc = "loop"
    /\ cur_date > end_date
    /\ pc' = "done"
    /\ UNCHANGED <<dataVars, cur_date, results, call, ret, otherVars>>

BacktestNext ==
    \/ BacktestStart
    \/ SkipDay
    \/ \E newton \in NewtonOutcomes : ProcessDay(newton)
    \/ BacktestFinish

BacktestSpec == BacktestInit /\ [][BacktestNext]_vars

\* a call of backtest_stock that is not over goes on: the next statement of
\* the one thread runs. Every step of BacktestNext changes pc or cur_date and
\* one is possible whenever pc is "idle" or "loop", so the step is described
\* by these two variables alone
BacktestRuns ==
    /\ pc \in {"idle", "loop"}
    /\ pc' \in {"loop", "done", "raised"}
    /\ cur_date' \in NoDate..(end_date + 1)
    /\ UNCHANGED <<dataVars, results, call, ret, otherVars>>

BacktestFairSpec == BacktestSpec /\ WF_<<pc, cur_date>>(BacktestRuns)

-----------------------------------------------------------------------------
(* StockBacktester.run: backtest_stock for one security after the other     *)

\* the securities find_all returns: two of the codes the backtester syncs
Stocks == <<"600519.SH", "000568.SZ">>

\* what the repositories hold for a security
StockData ==
    [quotes : BacktestQuoteChoices,
     dividends : {<<>>},
     indicators : {<<>>, <<DailyIndicator(1, Some(DecInt(10)), Some(Dec(5, 4)))>>},
     reports : {PlainReports(RoeYears)},
     list_date : {start_date - 1, start_date + 1}]

\* the security backtest_stock is called for
stock_code == Stocks[Len(log) + 1]

RunInit ==
    /\ trades = <<>>
    /\ \E data \in StockData :
           /\ quotes = data.quotes /\ dividends = data.dividends
           /\ indicators = data.indicators /\ reports = data.reports
           /\ list_date = data.list_date
    /\ NotRunning
    /\ call = NoCall
    /\ ret = Returned(DecZero)

\* a report after which the ledger of the next security holds a trade
ReportStock_LeftoverTrade(data) ==
    /\ pc = "done"
    /\ results # <<>>
    /\ Len(log) + 1 < Len(Stocks)
    /\ log' = Append(log, <<stock_code, Len(results)>>)
    /\ quotes' = data.quotes /\ dividends' = data.dividends
    /\ indicators' = data.indicators /\ reports' = data.reports
    /\ list_date' = data.list_date
    /\ trades' = <<BacktestTrade(end_date, "buy", results[Len(results)].price, LotSize)>>
    /\ results' = <<>>
    /\ cur_date' = IF start_date < data.list_date THEN data.list_date ELSE start_date
    /\ pc' = "loop"
    /\ UNCHANGED <<call, ret, syncVars, retryVars>>

\* run after backtest_stock returned the rows of a security: the last row
\* is printed, which raises when there is none; then backtest_stock is
\* called for the next security, whose _load_data replaces the data and the
\* ledger, or run returns
ReportStock(data) ==
    /\ pc = "done"
    /\ IF results = <<>>
       THEN /\ pc' = "raised"
            /\ UNCHANGED <<dataVars, cur_date, results, log>>
       ELSE /\ log' = Append(log, <<stock_code, Len(results)>>)
            /\ IF Len(log) + 1 < Len(Stocks)
               THEN /\ quotes' = data.quotes /\ dividends' = data.dividends
                    /\ indicators' = data.indicators /\ reports' = data.reports
                    /\ list_date' = data.list_date
                    /\ trades' = <<>>
                    /\ results' = <<>>
                    /\ cur_date' = IF start_date < data.list_date THEN data.list_date
                                   ELSE start_date
                    /\ pc' = "loop"
               ELSE /\ pc' = "returned"
                    /\ UNCHANGED <<dataVars, cur_date, results>>
    /\ UNCHANGED <<call, ret, syncVars, retryVars>>

RunNext ==
    \/ BacktestStart
    \/ SkipDay
    \/ \E newton \in NewtonOutcomes : ProcessDay(newton)
    \/ BacktestFinish
    \/ \E data \in StockData : ReportStock(data)

RunSpec == RunInit /\ [][RunNext]_vars

-----------------------------------------------------------------------------
(* SyncService: the synchronisation of one type of data, at most once per   *)
(* interval.  Time is counted in days.                                       *)

\* the last day of the clock
MaxNow == 8
\* SyncType: a type that is due every week and one that is due every day
SyncTypes == {"stock_list", "daily_quote"}
WeekDays == 7
OneDay == 1
interval(sync_type) == IF sync_type = "stock_list" THEN WeekDays ELSE OneDay

\* a row of the table sync_tasks; last_sync_time may be NULL
NoTime == 0 - 1
NoRow == [found |-> FALSE, last_sync_time |-> NoTime]
Row(t) == [found |-> TRUE, last_sync_time |-> t]

\* SyncTaskRepository.get_task: None when there is no row
SyncTask(sync_type, last_sync_time) == [sync_type |-> sync_type, last_sync_time |-> last_sync_time]
NoTask == SyncTask("", NoTime)
get_task(tasks, sync_type) ==
    IF ~tasks[sync_type].found THEN NoTask
    ELSE SyncTask(sync_type, tasks[sync_type].last_sync_time)

\* a need_sync that is true for every task
need_sync_Always(task, t_now) == TRUE

\* SyncTask.need_sync at the time t_now
need_sync(task, t_now) ==
    IF task.last_sync_time = NoTime THEN TRUE
    ELSE t_now >= task.last_sync_time + interval(task.sync_type)

\* SyncTaskRepository.update_sync_time at the time t_now: insert or update
update_sync_time(tasks, sync_type, t_now) == [tasks EXCEPT ![sync_type] = Row(t_now)]

\* SyncService.sync decides to fetch
sync_fetches(tasks, sync_type, t_now) ==
    LET task == get_task(tasks, sync_type)
    IN task = NoTask \/ need_sync(task, t_now)

\* a new database: _init_table creates an empty table
SyncInit ==
    /\ trades = <<>> /\ quotes = <<>> /\ dividends = <<>>
    /\ indicators = <<>> /\ reports = <<>> /\ list_date = NoDate
    /\ cur_date = NoDate /\ results = <<>> /\ pc = "idle"
    /\ call = NoCall
    /\ ret = Returned(DecZero)
    /\ sync_tasks = [t \in SyncTypes |-> NoRow]
    /\ now = 0
    /\ api = <<>> /\ attempt = 0 /\ log = <<>>

\* a sync that records the time although the fetch raised
SyncCall_RecordsFailure(sync_type, fetch, took) ==
    /\ now + took <= MaxNow
    /\ sync_fetches(sync_tasks, sync_type, now)
    /\ call' = [op |-> "sync", sync_type |-> sync_type, at |-> now, fetch |-> fetch]
    /\ now' = now + took
    /\ ret' = IF fetch = "raised" THEN Raised("Exception") ELSE Returned(DecZero)
    /\ sync_tasks' = update_sync_time(sync_tasks, sync_type, now + took)
    /\ UNCHANGED <<dataVars, runVars, retryVars, log>>

\* SyncService.sync(sync_type): fetch is how fetch_and_save ends, "saved" or
\* "raised", and took the time it takes; when sync does not fetch, fetch is
\* "not called" and no time passes
SyncCall(sync_type, fetch, took) ==
    /\ now + took <= MaxNow
    /\ call' = [op |-> "sync", sync_type |-> sync_type, at |-> now, fetch |-> fetch]
    /\ IF sync_fetches(sync_tasks, sync_type, now)
       THEN /\ fetch # "not called"
            /\ now' = now + took
            /\ IF fetch = "raised"
               THEN /\ ret' = Raised("Exception")
                    /\ sync_tasks' = sync_tasks
               ELSE /\ ret' = Returned(DecZero)
                    /\ sync_tasks' = update_sync_time(sync_tasks, sync_type, now + took)
       ELSE /\ fetch = "not called" /\ took = 0
            /\ ret' = Returned(DecZero)
            /\ UNCHANGED <<sync_tasks, now>>
    /\ UNCHANGED <<dataVars, runVars, retryVars, log>>

\* a day passes
Tick ==
    /\ now < MaxNow
    /\ now' = now + 1
    /\ UNCHANGED <<dataVars, runVars, call, ret, sync_tasks, retryVars, log>>

SyncNext ==
    \/ \E sync_type \in SyncTypes, fetch \in {"saved", "raised", "not called"}, took \in {0, 1} :
           SyncCall(sync_type, fetch, took)
    \/ Tick

SyncSpec == SyncInit /\ [][SyncNext]_vars

-----------------------------------------------------------------------------
(* TushareAPI: every method of the provider client is wrapped in a loop of  *)
(* at most max_retries attempts                                              *)

\* the largest max_retries of the model; the default is 3
MaxRetries == 3
\* retry_delay in seconds; the default is 60
RetryDelays == {0, 60}
\* the methods called through the wrapper
ProviderMethods == {"stock_basic", "daily"}
\* what original_method does in one attempt: "ok" or the exception it raises
AttemptOutcomes == {"ok", "ConnectionError", "Exception"}

TushareAPI(max_retries, retry_delay) == [max_retries |-> max_retries, retry_delay |-> retry_delay]

\* the calls of original_method in the log
CallsMade == {i \in 1..Len(log) : log[i][1] = "call"}

RetryInit ==
    /\ trades = <<>> /\ quotes = <<>> /\ dividends = <<>>
    /\ indicators = <<>> /\ reports = <<>> /\ list_date = NoDate
    /\ cur_date = NoDate /\ results = <<>> /\ pc = "idle"
    /\ call = NoCall
    /\ ret = Returned("")
    /\ sync_tasks = <<>> /\ now = 0
    /\ api \in {TushareAPI(m, d) : m \in 0..MaxRetries, d \in RetryDelays}
    /\ attempt = 0
    /\ log = <<>>

\* __getattr__(name) and the call of the wrapper it returns
WrapperCall(name) ==
    /\ pc = "idle"
    /\ call' = [op |-> name, date |-> NoDate]
    /\ attempt' = 0
    /\ pc' = "retry"
    /\ UNCHANGED <<dataVars, cur_date, results, ret, syncVars, api, log>>

\* an attempt that is followed by a sleep also when it was the last one
Attempt_SleepsAfterLast(outcome) ==
    /\ pc = "retry"
    /\ attempt < api.max_retries
    /\ IF outcome = "ok"
       THEN /\ log' = Append(log, <<"call", outcome>>)
            /\ ret' = Returned("rows")
            /\ pc' = "done"
            /\ UNCHANGED attempt
       ELSE /\ log' = log \o <<<<"call", outcome>>, <<"sleep", api.retry_delay>>>>
            /\ IF attempt = api.max_retries - 1
               THEN /\ ret' = Raised(outcome)
                    /\ pc' = "raised"
                    /\ UNCHANGED attempt
               ELSE /\ attempt' = attempt + 1
                    /\ UNCHANGED <<ret, pc>>
    /\ UNCHANGED <<dataVars, cur_date, results, call, syncVars, api>>

\* one iteration of the loop: original_method is called; its result is
\* returned, or its exception is re-raised in the last iteration and
\* followed by time.sleep(retry_delay) in the others
Attempt(outcome) ==
    /\ pc = "retry"
    /\ attempt < api.max_retries
    /\ IF outcome = "ok"
       THEN /\ log' = Append(log, <<"call", outcome>>)
            /\ ret' = Returned("rows")
            /\ pc' = "done"
            /\ UNCHANGED attempt
       ELSE IF attempt = api.max_retries - 1
       THEN /\ log' = Append(log, <<"call", outcome>>)
            /\ ret' = Raised(outcome)
            /\ pc' = "raised"
            /\ UNCHANGED attempt
       ELSE /\ log' = log \o <<<<"call", outcome>>, <<"sleep", api.retry_delay>>>>
            /\ attempt' = attempt + 1
            /\ UNCHANGED <<ret, pc>>
    /\ UNCHANGED <<dataVars, cur_date, results, call, syncVars, api>>

\* range(max_retries) is over without a return or a raise: the wrapper
\* returns None
LoopExhausted ==
    /\ pc = "retry"
    /\ attempt >= api.max_retries
    /\ ret' = Returned("None")
    /\ pc' = "done"
    /\ UNCHANGED <<dataVars, cur_date, results, call, syncVars, retryVars, log>>

RetryNext ==
    \/ \E name \in ProviderMethods : WrapperCall(name)
    \/ \E outcome \in AttemptOutcomes : Attempt(outcome)
    \/ LoopExhausted

RetrySpec == RetryInit /\ [][RetryNext]_vars

-----------------------------------------------------------------------------
(* What the claims about the ledger speak of *)

\* an action that takes part in the replay up to as_of
Participates(d, as_of) ==
    d.div_proc = "executed" /\ d.base_date # NoDate /\ d.base_date <= as_of

RECURSIVE NetBought(_, _, _)
NetBought(trs, d, i) ==
    IF i > Len(trs) THEN DecZero
    ELSE LET rest == NetBought(trs, d, i + 1)
         IN IF trs[i].trade_date # d THEN rest
            ELSE IF trs[i].trade_type = "buy" THEN DecAdd(rest, trs[i].trade_shares)
            ELSE DecSub(rest, trs[i].trade_shares)

RECURSIVE Multiplied(_, _, _, _)
Multiplied(shares, acts, d, i) ==
    IF i > Len(acts) THEN shares
    ELSE IF acts[i].base_date # d THEN Multiplied(shares, acts, d, i + 1)
    ELSE Multiplied(DecMul(DecMul(shares, DecAdd(DecInt(1), acts[i].stk_bo_rate)),
                           DecAdd(DecInt(1), acts[i].stk_co_rate)), acts, d, i + 1)

\* the position after day d, day by day: the day's trades, then the day's
\* actions among acts; lastActions tells whether the actions of the last day
\* are applied
RECURSIVE PositionByDay(_, _, _, _)
PositionByDay(trs, acts, d, lastActions) ==
    IF d <= 0 THEN DecZero
    ELSE LET traded == DecAdd(PositionByDay(trs, acts, d - 1, TRUE), NetBought(trs, d, 1))
         IN IF lastActions THEN Multiplied(traded, acts, d, 1) ELSE traded

ParticipatingActions(as_of) ==
    LET Takes(d) == Participates(d, as_of) IN SelectSeq(dividends, Takes)

\* C1: every executed action with a cash dividend and a base date <= as_of yields
\* a dividend event of cash_div times the shares held before that action's own
\* bonus and transfer are applied, dated at its payment date.
C1_DividendOnPreActionShares ==
    call.op = "get_cash_flows" =>
        \A i \in 1..Len(dividends) :
            LET d == dividends[i]
                before == PositionByDay(trades, ParticipatingActions(call.date),
                                        d.base_date, FALSE)
            IN (Participates(d, call.date) /\ DecTruthy(d.cash_div) /\ DecLt(DecZero, before))
               => \E k \in 1..Len(ret.flows) :
                      ret.flows[k] = <<PayDate(d), DecMul(before, d.cash_div), "dividend">>

C3_BaseDateExcluded ==
    call.op = "calculate_position_shares" =>
        ret.value = PositionByDay(trades, ParticipatingActions(call.date), call.date, FALSE)

\* C7 as stated: get_final_value raises ValueError whenever no quote exists for
\* the date, whatever the position.
C7_MissingQuoteAlwaysRaises ==
    (call.op = "get_final_value" /\ ~HasQuote(rc, call.date)) => ret.raised = "ValueError"

\* C7 as amended: with a positive position, get_final_value raises ValueError
\* when the date has no quote and returns position x close when it has one; with
\* a position of zero or less it returns 0 whether or not a quote exists.
C7_FinalValue ==
    call.op = "get_final_value" =>
        LET shares == PositionByDay(trades, ParticipatingActions(call.date), call.date, TRUE)
        IN IF DecLt(DecZero, shares)
           THEN IF \E i \in 1..Len(quotes) : quotes[i].trade_date = call.date
                THEN \E i \in 1..Len(quotes) :
                         /\ quotes[i].trade_date = call.date
                         /\ ret = Returned(DecMul(shares, quotes[i].close))
                ELSE ret = Raised("ValueError")
           ELSE ret = Returned(DecZero)

C7_Witness ==
    /\ call.op = "get_final_value"
    /\ ~HasQuote(rc, call.date)
    /\ DecLt(DecZero, calculate_position_shares(rc, call.date))
    /\ ret.raised = "ValueError"

-----------------------------------------------------------------------------
(* Claims about the decision engine *)

\* C4: whenever get_action returns, what it returns equals TradeAction.BUY
\* exactly when the ROE screen passes and the valuation ratio is at most 0.5,
\* equals TradeAction.SELL exactly when the ROE screen fails or the ratio is
\* at least 1.3, and equals TradeAction.HOLD exactly in the remaining case.
C4_ActionEqualsMember ==
    (call.op = "get_action" /\ ret.raised = "none") =>
        LET tr == trader(call.date)
            roe_qualified == check_roe_condition(tr).qualified
            dcf_ratio == calculate_dcf_ratio(tr).ratio
            buy == roe_qualified /\ RatLe(dcf_ratio, BuyRatio)
            sell == ~roe_qualified \/ RatLe(SellRatio, dcf_ratio)
        IN /\ PyEq(ret.result, TradeAction("BUY")) <=> buy
           /\ PyEq(ret.result, TradeAction("SELL")) <=> sell
           /\ PyEq(ret.result, TradeAction("HOLD")) <=> (~buy /\ ~sell)

\* C8: whenever _calculate_dcf_ratio returns the neutral ratio 1.0, the
\* dcf_ratio_debug_info it leaves is not empty.
C8_NeutralRatioExplained ==
    (call.op = "_calculate_dcf_ratio" /\ ret.raised = "none" /\ ret.ratio = NeutralRatio) =>
        ret.dcf_ratio_debug_info # ""

\* C9: get_action raises nothing, whatever inputs are missing.
C9_GetActionNeverRaises ==
    call.op = "get_action" => ret.raised = "none"

-----------------------------------------------------------------------------
(* Claims about the backtest loop *)

\* the action of the decision engine on a day
DecidedOn(d) == get_action(trader(d)).result.action

\* C5: for every processed day on which the decision engine's action is BUY
\* and yesterday's cash affords at least one lot of 100 shares, exactly one
\* trade dated that day is in the ledger: a buy of the largest multiple of
\* 100 shares that yesterday's cash affords at the day's price, whose amount
\* is price x shares.
C5_BuyDayAppendsOneBuy ==
    \A i \in 1..Len(results) :
        LET row == results[i]
            shares == LotShares(row.yesterday_capital, row.price)
            dated == {j \in 1..Len(trades) : trades[j].trade_date = row.date}
        IN (DecidedOn(row.date) = TradeAction("BUY") /\ shares > 0) =>
               /\ Cardinality(dated) = 1
               /\ \A j \in dated :
                      /\ trades[j].trade_type = "buy"
                      /\ trades[j].trade_shares = DecInt(shares)
                      /\ trades[j].trade_amount = DecMul(row.price, DecInt(shares))

\* C6: for every processed day on which the decision engine's action is SELL
\* and yesterday's position is positive, exactly one trade dated that day is
\* in the ledger, a sell of the whole position, and the position recorded
\* for the day is 0.
C6_SellDayClosesPosition ==
    \A i \in 1..Len(results) :
        LET row == results[i]
            dated == {j \in 1..Len(trades) : trades[j].trade_date = row.date}
        IN (DecidedOn(row.date) = TradeAction("SELL") /\ DecLt(DecZero, row.yesterday_position)) =>
               /\ Cardinality(dated) = 1
               /\ \A j \in dated :
                      /\ trades[j].trade_type = "sell"
                      /\ trades[j].trade_shares = row.yesterday_position
               /\ row.today_position = DecZero

\* the case of C6: a processed SELL day that starts with a positive position
C6_Case ==
    \E i \in 1..Len(results) :
        /\ DecidedOn(results[i].date) = TradeAction("SELL")
        /\ DecLt(DecZero, results[i].yesterday_position)

\* backtest_stock never records a trade
NoTradeEver == trades = <<>>

-----------------------------------------------------------------------------
(* Claims about the annualized return *)

C11_ShortListsNotSolved ==
    /\ (call.op = "_xirr" /\ Len(call.cash_flows) <= 1) =>
           (ret.value = DecZero /\ ~call.solved)
    /\ (call.op = "calculate_annualized_return" /\ trades = <<>>) =>
           ret = Returned(DecZero)

\* the rates of the call at hand, their squared deviations from the mean,
\* and the indices of the rates within two population standard deviations:
\* dev_i^2 * n <= 4 * sum of dev_j^2
C12_Rates == GrowthRates(call.historical_fcff, 1)
C12_SqDev ==
    [i \in 1..Len(C12_Rates) |->
        RatMul(RatSub(C12_Rates[i], Mean(C12_Rates)), RatSub(C12_Rates[i], Mean(C12_Rates)))]
C12_Kept ==
    {i \in 1..Len(C12_Rates) :
        RatLe(RatMul(RatInt(Len(C12_Rates)), C12_SqDev[i]),
              RatMul(RatInt(4), RatSum(C12_SqDev, 1)))}
RECURSIVE C12_SumOver(_)
C12_SumOver(S) ==
    IF S = {} THEN RatInt(0)
    ELSE LET i == CHOOSE j \in S : TRUE
         IN RatAdd(C12_Rates[i], C12_SumOver(S \ {i}))

\* C12 as stated: for the rates 0.1, 0.1, 0.1, 5.0 the value 5.0 is discarded
\* and the estimate is near 0.1 (within 0.05 of it).
C12_SampleOutlierDiscarded ==
    (call.op = "_calculate_growth_rate" /\ call.historical_fcff = SampleFcff) =>
        /\ C12_Rates = <<Rat(1, 10), Rat(1, 10), Rat(1, 10), RatInt(5)>>
        /\ 4 \notin C12_Kept
        /\ RatLe(Rat(5, 100), ret.value) /\ RatLe(ret.value, Rat(15, 100))

\* C12: the estimate is 0 without rates and otherwise the mean of the rates
\* that lie within 2 population standard deviations of the mean, of which
\* there is always one; up to four rates none is discarded, and for the
\* rates 0.1, 0.1, 0.1, 5.0 the estimate is their mean 1.325.
C12_MeanOfRatesWithinTwoStd ==
    call.op = "_calculate_growth_rate" =>
        /\ Len(C12_Rates) = 0 => ret.value = RatInt(0)
        /\ Len(C12_Rates) > 0 =>
              /\ C12_Kept # {}
              /\ RatMul(ret.value, RatInt(Cardinality(C12_Kept))) = C12_SumOver(C12_Kept)
        /\ Len(C12_Rates) <= 4 => C12_Kept = 1..Len(C12_Rates)
        /\ call.historical_fcff = SampleFcff =>
              /\ C12_Rates = <<Rat(1, 10), Rat(1, 10), Rat(1, 10), RatInt(5)>>
              /\ ret.value = Rat(1325, 1000)

\* a rate was discarded: the estimate is not the mean of all rates
C12_Witness ==
    /\ call.op = "_calculate_growth_rate"
    /\ Len(C12_Rates) > 4
    /\ C12_Kept # 1..Len(C12_Rates)
    /\ ret.value # Mean(C12_Rates)

\* the trader of the call at hand, and the condition under which
\* _calculate_dcf_ratio gets as far as the valuation
C13_Trader == trader(call.date)
C13_Valued ==
    /\ call.op = "_calculate_dcf_ratio"
    /\ Len(C13_Trader.financial_reports) > 0
    /\ Len(C13_Trader.daily_quotes) > 0
    /\ Len(C13_Trader.daily_indicators) > 0
    /\ C13_Trader.financial_reports[1].income_statement.present
    /\ Truthy(C13_Trader.financial_reports[1].income_statement.n_income_attr_p)
    /\ HistoricalFcffError(C13_Trader.financial_reports) = "none"
    /\ Len(HistoricalFcff(C13_Trader.financial_reports)) >= 2
    /\ calculate_fcff(C13_Trader.financial_reports[1]).fcff.has
    /\ C13_Trader.daily_indicators[1].total_mv.has
C13_Estimate == calculate_growth_rate(HistoricalFcff(C13_Trader.financial_reports))
C13_LatestFcff == Float(calculate_fcff(C13_Trader.financial_reports[1]).fcff.v)
C13_MarketValue == Float(DecMul(C13_Trader.daily_indicators[1].total_mv.v, DecInt(10000)))
\* latest_FCFF x (1+g)^i / (1+discount_rate)^i for i = 1, 2 plus
\* latest_FCFF x (1+g)^3 / risk_free_rate / (1+discount_rate)^3
C13_Sum(g) ==
    LET one_g == RatAdd(RatInt(1), g)
        one_r == RatAdd(RatInt(1), discount_rate)
    IN RatAdd(RatAdd(RatDiv(RatMul(C13_LatestFcff, one_g), one_r),
                     RatDiv(RatMul(C13_LatestFcff, RatMul(one_g, one_g)), RatMul(one_r, one_r))),
              RatDiv(RatDiv(RatMul(C13_LatestFcff, RatMul(one_g, RatMul(one_g, one_g))),
                            risk_free_rate),
                     RatMul(one_r, RatMul(one_r, one_r))))

\* C13: the valuation compounds the latest FCFF at exactly the estimated
\* growth rate g: two flows discounted at the discount rate and a terminal
\* value latest_FCFF x (1+g)^3 / risk_free_rate discounted over three
\* periods; the ratio is the market value divided by their sum.
C13_CompoundsAtEstimate ==
    (C13_Valued /\ RatLt(RatInt(0), C13_Sum(C13_Estimate))) =>
        ret.ratio = RatDiv(C13_MarketValue, C13_Sum(C13_Estimate))

\* what the valuation does: it compounds at half the estimate
C13_CompoundsAtHalfEstimate ==
    (C13_Valued /\ RatLt(RatInt(0), C13_Sum(RatDiv(C13_Estimate, RatInt(2))))) =>
        ret.ratio = RatDiv(C13_MarketValue, C13_Sum(RatDiv(C13_Estimate, RatInt(2))))

\* the records of a list that are dated after a day, and the reports that
\* are dated after it or announced on it or later
C14_Late(x) == x.trade_date > call.date
C14_LateReport(r) == r.report_date > call.date \/ r.ann_date >= call.date
C14_NotLate(x) == ~C14_Late(x)
C14_NotLateReport(r) == ~C14_LateReport(r)
\* the late records altered: another valuation, another price, another ROE
C14_Altered(s) ==
    [i \in 1..Len(s) |->
        IF C14_Late(s[i]) THEN [s[i] EXCEPT !.pe = Some(DecInt(1)), !.total_mv = Some(Dec(1, 4))]
        ELSE s[i]]
C14_AlteredQuotes(s) ==
    [i \in 1..Len(s) |-> IF C14_Late(s[i]) THEN [s[i] EXCEPT !.close = DecInt(99)] ELSE s[i]]
C14_AlteredReports(s) ==
    [i \in 1..Len(s) |->
        IF C14_LateReport(s[i])
        THEN [s[i] EXCEPT !.financial_indicators = FinancialIndicators(None, None),
                          !.cash_flow_statement = CashFlowStatement(Some(DecInt(7)), None)]
        ELSE s[i]]
\* records to add: dated on the day after, or announced on the day itself
C14_MoreIndicators == <<DailyIndicator(call.date + 1, Some(DecInt(1)), Some(Dec(1, 4)))>>
C14_MoreQuotes == <<DailyQuote(call.date + 1, DecInt(99), DecInt(99))>>
C14_MoreReports ==
    <<[PlainReport(0 - 1) EXCEPT !.ann_date = call.date,
                                 !.financial_indicators = FinancialIndicators(None, None)],
      [PlainReport(call.date + 1) EXCEPT !.ann_date = 0 - 1,
                                 !.cash_flow_statement = CashFlowStatement(Some(DecInt(7)), None)]>>

\* C14: the trader built for a day keeps only indicators and quotes dated on
\* or before the day and only annual reports (period type 4) dated on or
\* before it and announced strictly before it; the action for the day is the
\* action on the data without the later records and the reports announced on
\* the day or later, and the trader that decides it is the same when those
\* are altered or are joined by more of them.
C14_OnlyDueRecords ==
    call.op = "get_action" =>
        LET tr == trader(call.date)
        IN /\ \A i \in 1..Len(tr.daily_indicators) :
                  tr.daily_indicators[i].trade_date <= call.date
           /\ \A i \in 1..Len(tr.daily_quotes) : tr.daily_quotes[i].trade_date <= call.date
           /\ \A i \in 1..Len(tr.financial_reports) :
                  /\ tr.financial_reports[i].end_type = "4"
                  /\ tr.financial_reports[i].report_date <= call.date
                  /\ tr.financial_reports[i].ann_date < call.date
           /\ ret = get_action(StockTrader(SelectSeq(indicators, C14_NotLate),
                                           SelectSeq(quotes, C14_NotLate),
                                           SelectSeq(reports, C14_NotLateReport), call.date))
           /\ tr = StockTrader(C14_Altered(indicators), C14_AlteredQuotes(quotes),
                               C14_AlteredReports(reports), call.date)
           /\ tr = StockTrader(C14_MoreIndicators \o indicators, quotes \o C14_MoreQuotes,
                               C14_MoreReports \o reports, call.date)

\* an action decided while an indicator and a quote are dated later, one
\* report is announced on the day and another is for a period that has not
\* ended, and which would be another action had all records been kept
C14_Witness ==
    /\ call.op = "get_action"
    /\ ret.raised = "none"
    /\ \E i \in 1..Len(indicators) : C14_Late(indicators[i])
    /\ \E i \in 1..Len(quotes) : C14_Late(quotes[i])
    /\ \E i \in 1..Len(reports) : reports[i].ann_date = call.date
    /\ \E i \in 1..Len(reports) :
           reports[i].report_date > call.date /\ reports[i].ann_date < call.date
    /\ ret.result.action # get_action(StockTrader(indicators, quotes, reports, MaxDay + 1)).result.action

\* the eligible reports of the call at hand, by their index in the data, and
\* the five most recent of them by report date
C15_Eligible ==
    {i \in 1..Len(reports) :
        /\ reports[i].end_type = "4"
        /\ reports[i].report_date <= call.date
        /\ reports[i].ann_date < call.date
        /\ reports[i].financial_indicators.present
        /\ reports[i].income_statement.present
        /\ reports[i].cash_flow_statement.present}
C15_Newer(i) == {j \in C15_Eligible : reports[j].report_date > reports[i].report_date}
C15_Recent == {i \in C15_Eligible : Cardinality(C15_Newer(i)) < 5}
C15_Older == C15_Eligible \ C15_Recent
C15_RoeFine(i) ==
    /\ reports[i].financial_indicators.roe.has
    /\ DecLe(DecInt(15), reports[i].financial_indicators.roe.v)
\* the data with the ROE of every older report taken away
C15_OlderAltered ==
    [i \in 1..Len(reports) |->
        IF i \in C15_Older
        THEN [reports[i] EXCEPT !.financial_indicators = FinancialIndicators(None, None)]
        ELSE reports[i]]

C15_WitnessMissing ==
    /\ call.op = "_check_roe_condition"
    /\ ~ret.qualified
    /\ Cardinality(C15_Eligible) >= 5
    /\ \A i \in C15_Recent :
           ~C15_RoeFine(i) => ~reports[i].financial_indicators.roe.has
    /\ \E i \in C15_Recent : ~reports[i].financial_indicators.roe.has

C16_Reverse(s) == [i \in 1..Len(s) |-> s[Len(s) + 1 - i]]
\* the trades up to a date and the executed actions with a base date up to
\* it, ordered by date and, on one date, trades ahead of actions
C16_Ordered(as_of) ==
    LET TradeDue(i) == trades[i].trade_date <= as_of
        ActionDue(i) == Participates(dividends[i], as_of)
        ts == SelectSeq([i \in 1..Len(trades) |-> i], TradeDue)
        ds == SelectSeq([i \in 1..Len(dividends) |-> i], ActionDue)
        all == [i \in 1..Len(ds) |-> <<"dividend", ds[i]>>]
               \o [i \in 1..Len(ts) |-> <<"trade", ts[i]>>]
        Key(e) == IF e[1] = "trade" THEN 2 * trades[e[2]].trade_date
                  ELSE 2 * dividends[e[2]].base_date + 1
    IN SortedBy(all, [i \in 1..Len(all) |-> Key(all[i])])
RECURSIVE C16_Replay(_, _, _)
C16_Replay(seq, i, shares) ==
    IF i > Len(seq) THEN shares
    ELSE LET e == seq[i]
             after ==
                 IF e[1] = "trade"
                 THEN IF trades[e[2]].trade_type = "buy"
                      THEN DecAdd(shares, trades[e[2]].trade_shares)
                      ELSE DecSub(shares, trades[e[2]].trade_shares)
                 ELSE DecMul(DecMul(shares, DecAdd(DecInt(1), dividends[e[2]].stk_bo_rate)),
                             DecAdd(DecInt(1), dividends[e[2]].stk_co_rate))
         IN C16_Replay(seq, i + 1, after)
\* a trade and a participating action on one date
C16_SameDate(as_of) ==
    \E i \in 1..Len(trades), k \in 1..Len(dividends) :
        /\ Participates(dividends[k], as_of)
        /\ trades[i].trade_date = dividends[k].base_date

\* C16: with a trade and an executed action on one date the replay applies
\* the trade first, whatever the order of the trades and of the actions in
\* the lists given: a buy of N shares on the action's date is multiplied by
\* (1 + bonus) x (1 + transfer), and a sell of the whole position on the
\* action's date leaves 0 shares.
C16_TradeBeforeAction ==
    call.op = "calculate_position_shares" =>
        /\ ret.value = C16_Replay(C16_Ordered(call.date), 1, DecZero)
        /\ ret.value = calculate_position_shares(
               ReturnCalculator(C16_Reverse(trades), quotes, C16_Reverse(dividends)), call.date)
        /\ \A d \in Days :
              (/\ trades = <<TradeRecord(d, "buy", 100, 10, 5, 0)>>
               /\ dividends = <<Dividend("executed", d, Dec(2, 1), Dec(3, 1), Dec(5, 1), d + 1, d + 2)>>
               /\ call.date >= d) => ret.value = DecInt(156)
        /\ \A d, e \in Days :
              (/\ trades = <<TradeRecord(d, "sell", 100, 12, 3, 6), TradeRecord(e, "buy", 100, 10, 5, 0)>>
               /\ e <= d
               /\ dividends = <<Dividend("executed", d, Dec(2, 1), Dec(3, 1), Dec(5, 1), d + 1, d + 2)>>
               /\ call.date >= d) => ret.value = DecZero

\* a buy on the base date of an action, in a ledger given the sell first: the
\* bought shares are multiplied
C16_Witness ==
    /\ call.op = "calculate_position_shares"
    /\ Len(trades) = 2 /\ Len(dividends) = 1
    /\ trades[1].trade_type = "sell" /\ trades[2].trade_type = "buy"
    /\ trades[1].trade_date > trades[2].trade_date
    /\ trades[2].trade_date = dividends[1].base_date
    /\ Participates(dividends[1], call.date)
    /\ call.date < trades[1].trade_date
    /\ ret.value = DecInt(156)

\* the shares bought less the shares sold up to a date
RECURSIVE C17_Held(_, _)
C17_Held(i, as_of) ==
    IF i > Len(trades) THEN DecZero
    ELSE IF trades[i].trade_date > as_of THEN C17_Held(i + 1, as_of)
    ELSE IF trades[i].trade_type = "buy"
         THEN DecAdd(trades[i].trade_shares, C17_Held(i + 1, as_of))
         ELSE DecAdd(DecNeg(trades[i].trade_shares), C17_Held(i + 1, as_of))
\* action k is the only one that takes part in the call at hand, and no trade
\* follows it up to the date asked
C17_Alone(k) ==
    /\ Participates(dividends[k], call.date)
    /\ \A j \in 1..Len(dividends) : j # k => ~Participates(dividends[j], call.date)
    /\ \A i \in 1..Len(trades) :
           ~(trades[i].trade_date > dividends[k].base_date /\ trades[i].trade_date <= call.date)

\* C17: an action with bonus ratio r_b and transfer ratio r_c turns the
\* running count s into s x (1 + r_b) x (1 + r_c), exactly, which differs
\* from s x (1 + r_b + r_c) when s and both ratios are not 0; 1000 shares with
\* ratios 0.2 and 0.3 become 1560.
C17_SequentialRatios ==
    call.op = "calculate_position_shares" =>
        /\ \A k \in 1..Len(dividends) :
              LET a == dividends[k]
                  held == C17_Held(1, a.base_date)
              IN C17_Alone(k) =>
                    /\ ret.value = DecMul(DecMul(held, DecAdd(DecInt(1), a.stk_bo_rate)),
                                          DecAdd(DecInt(1), a.stk_co_rate))
                    /\ (held # DecZero /\ a.stk_bo_rate # DecZero /\ a.stk_co_rate # DecZero) =>
                           ret.value # DecMul(held, DecAdd(DecAdd(DecInt(1), a.stk_bo_rate),
                                                           a.stk_co_rate))
        /\ (IsSample /\ call.date = 2) => ret.value = DecInt(1560)
        /\ (trades = OddLotTrades /\ dividends = OddLotDividends) => ret.value = Dec(78, 1)

\* the position of the sample ledger on the action's date
C17_Witness ==
    /\ call.op = "calculate_position_shares"
    /\ IsSample /\ call.date = 2
    /\ C17_Alone(1)
    /\ C17_Held(1, 2) = DecInt(1000)
    /\ ret.value = DecInt(1560)

\* five shares become 7.8 shares
C17_WitnessFraction ==
    /\ call.op = "calculate_position_shares"
    /\ trades = OddLotTrades /\ dividends = OddLotDividends
    /\ C17_Alone(1)
    /\ ret.value = Dec(78, 1)

\* the event a trade is to yield, and the trade events of a list
C18_EventOf(t) ==
    <<t.trade_date,
      IF t.trade_type = "buy"
      THEN DecSub(DecZero, DecAdd(t.trade_amount, DecAdd(t.commission, t.tax)))
      ELSE DecSub(t.trade_amount, DecAdd(t.commission, t.tax)),
      "trade">>
C18_TradeEvents(flows) == {k \in 1..Len(flows) : flows[k][3] = "trade"}
C18_Due(as_of) == {i \in 1..Len(trades) : trades[i].trade_date <= as_of}

\* C18: get_cash_flows(as_of) holds one event per trade dated on or before
\* as_of and none for a later trade: as many trade events as such trades, and
\* each event -(amount + commission + tax) of a buy or amount - commission -
\* tax of a sell, dated at the trade date, as often as trades yield it; the
\* list is empty when as_of is before the first trade.
C18_OneEventPerTrade ==
    call.op = "get_cash_flows" =>
        /\ Cardinality(C18_TradeEvents(ret.flows)) = Cardinality(C18_Due(call.date))
        /\ \A i \in C18_Due(call.date) :
              Cardinality({k \in C18_TradeEvents(ret.flows) : ret.flows[k] = C18_EventOf(trades[i])})
                  = Cardinality({j \in C18_Due(call.date) :
                                    C18_EventOf(trades[j]) = C18_EventOf(trades[i])})
        /\ C18_Due(call.date) = {} => ret.flows = <<>>

\* a buy on or before the date asked and a sell after it: one event, -1005
C18_Witness ==
    /\ call.op = "get_cash_flows"
    /\ Len(trades) = 2
    /\ \E i, j \in 1..2 :
           /\ trades[i].trade_type = "buy" /\ trades[i].trade_date <= call.date
           /\ trades[j].trade_type = "sell" /\ trades[j].trade_date > call.date
    /\ Cardinality(C18_TradeEvents(ret.flows)) = 1
    /\ \E k \in 1..Len(ret.flows) : ret.flows[k][2] = DecInt(0 - 1005)

\* a date before the first trade although an action is due: no event
C18_WitnessEmpty ==
    /\ call.op = "get_cash_flows"
    /\ Len(trades) > 0 /\ C18_Due(call.date) = {}
    /\ \E k \in 1..Len(dividends) : Participates(dividends[k], call.date)
    /\ ret.flows = <<>>

\* the call at hand returned a cash-flow list
C19_Listed ==
    /\ call.op \in {"get_cash_flows", "_get_cash_flows_with_final_value"}
    /\ ret.raised = "none"
\* the terminal value of the call at hand
C19_FinalValue == DecMul(calculate_position_shares(rc, call.date), QuoteGet(rc, call.date).close)

\* C19: the list returned by get_cash_flows and by
\* _get_cash_flows_with_final_value is in non-decreasing order of date; on
\* one date trade events precede dividend events and the events of two
\* trades follow the order of the trades; the terminal-value event is there
\* exactly when the position is positive, and follows every other event of
\* the evaluation date.
C19_OrderedFlows ==
    C19_Listed =>
        /\ \A k, l \in 1..Len(ret.flows) : k < l => ret.flows[k][1] <= ret.flows[l][1]
        /\ \A k, l \in 1..Len(ret.flows) :
              (k < l /\ ret.flows[k][1] = ret.flows[l][1] /\ Len(ret.flows[l]) = 3) =>
                  /\ Len(ret.flows[k]) = 3
                  /\ ~(ret.flows[k][3] = "dividend" /\ ret.flows[l][3] = "trade")
        /\ \A i, j \in C18_Due(call.date) :
              (i < j /\ trades[i].trade_date = trades[j].trade_date) =>
                  \E k, l \in 1..Len(ret.flows) :
                      /\ k < l
                      /\ ret.flows[k] = C18_EventOf(trades[i])
                      /\ ret.flows[l] = C18_EventOf(trades[j])
        /\ (call.op = "_get_cash_flows_with_final_value"
                /\ DecLt(DecZero, calculate_position_shares(rc, call.date))) =>
              \E k \in 1..Len(ret.flows) :
                  /\ ret.flows[k] = <<call.date, C19_FinalValue>>
                  /\ \A l \in 1..Len(ret.flows) :
                         (l # k /\ ret.flows[l][1] = call.date) => l < k
        /\ (call.op = "get_cash_flows"
                \/ DecLe(calculate_position_shares(rc, call.date), DecZero)) =>
              \A k \in 1..Len(ret.flows) : Len(ret.flows[k]) = 3

\* a trade, a dividend and the terminal value on the evaluation date, in
\* this order, after an earlier trade
C19_Witness ==
    /\ call.op = "_get_cash_flows_with_final_value"
    /\ ret.raised = "none"
    /\ Len(ret.flows) = 4
    /\ ret.flows[1][1] < call.date
    /\ ret.flows[2][1] = call.date /\ ret.flows[2][3] = "trade"
    /\ ret.flows[3][1] = call.date /\ ret.flows[3][3] = "dividend"
    /\ ret.flows[4] = <<call.date, C19_FinalValue>>

\* a buy and a sell on one date, given the sell first
C19_WitnessTrades ==
    /\ call.op = "get_cash_flows"
    /\ Len(ret.flows) = 2
    /\ ret.flows[1][1] = ret.flows[2][1]
    /\ DecLt(DecZero, ret.flows[1][2]) /\ DecLt(ret.flows[2][2], DecZero)

\* the shares of the trades of one type dated on or before a date
RECURSIVE C20_Shares(_, _, _)
C20_Shares(type, as_of, i) ==
    IF i > Len(trades) THEN DecZero
    ELSE IF trades[i].trade_type = type /\ trades[i].trade_date <= as_of
         THEN DecAdd(trades[i].trade_shares, C20_Shares(type, as_of, i + 1))
         ELSE C20_Shares(type, as_of, i + 1)

\* C20: in a ledger without corporate actions calculate_position_shares(as_of)
\* returns the shares bought less the shares sold over the trades dated on
\* or before as_of, and 0 when there is none; the call leaves the trades and
\* the actions as they were, and the same call on them returns the same
\* value.
C20_NetOfTrades ==
    [][(call'.op = "calculate_position_shares" /\ dividends = <<>>) =>
           /\ ret'.value = DecSub(C20_Shares("buy", call'.date, 1), C20_Shares("sell", call'.date, 1))
           /\ C18_Due(call'.date) = {} => ret'.value = DecZero
           /\ trades' = trades /\ dividends' = dividends
           /\ ret'.value = calculate_position_shares(
                               ReturnCalculator(trades', quotes', dividends'), call'.date)]_vars

\* a buy on or before the date asked and a sell after it, no action: the
\* position is the bought shares
C20_Witness ==
    /\ call.op = "calculate_position_shares"
    /\ dividends = <<>>
    /\ Len(trades) = 2
    /\ trades[1].trade_type = "sell" /\ trades[1].trade_date > call.date
    /\ trades[2].trade_type = "buy" /\ trades[2].trade_date <= call.date
    /\ ret.value = DecInt(100)

\* a position sold short: one sell and no buy
C20_WitnessShort ==
    /\ call.op = "calculate_position_shares"
    /\ dividends = <<>>
    /\ Len(trades) = 1 /\ trades[1].trade_type = "sell" /\ trades[1].trade_date <= call.date
    /\ ret.value = DecInt(0 - 100)

-----------------------------------------------------------------------------
(* Claims about the days of the backtest loop *)

\* the first day of the loop
C21_FirstDay == IF start_date < list_date THEN list_date ELSE start_date
\* the loop is at a day of the range
C21_AtDay == pc = "loop" /\ cur_date <= end_date

\* C21: a step of the loop at a day without a quote appends no trade and no
\* row, raises nothing and goes on to the next day; every row is dated on a
\* day of the range from max(start_date, listing date) to end_date that has
\* a quote, for _get_price and for the ledger alike, so that the final value
\* of a processed day never fails for a missing quote.
C21_NoQuoteDaySkipped ==
    [][/\ (C21_AtDay /\ ~HasPrice(quotes, cur_date)) =>
              /\ trades' = trades /\ results' = results
              /\ pc' = "loop" /\ cur_date' = cur_date + 1
       /\ \A i \in 1..Len(results') :
              /\ C21_FirstDay <= results'[i].date /\ results'[i].date <= end_date
              /\ HasPrice(quotes, results'[i].date)
              /\ HasQuote(ReturnCalculator(trades', quotes, dividends), results'[i].date)
       /\ (C21_AtDay /\ HasPrice(quotes, cur_date)) =>
              get_final_value(ReturnCalculator(trades', quotes, dividends), cur_date).raised
                  # "ValueError"]_vars

\* a finished run with a row after a day of the range that has no quote
C21_Witness ==
    /\ pc = "done"
    /\ \E i \in 1..Len(results) :
           \E d \in C21_FirstDay..end_date :
               /\ d < results[i].date
               /\ ~HasPrice(quotes, d)
               /\ \A j \in 1..Len(results) : results[j].date # d

\* yesterday's position and cash of the day the loop is at
C22_YesterdayPosition ==
    calculate_position_shares(ReturnCalculator(trades, quotes, dividends), cur_date - 1)
C22_YesterdayCapital ==
    DecAdd(DecInt(InitialCapital),
           calculate_net_cash_flow_value(ReturnCalculator(trades, quotes, dividends), cur_date - 1))
\* the day the loop is at adds no trade: HOLD, BUY without the cash for a
\* lot, SELL without a position
C22_NoTradeDay ==
    \/ DecidedOn(cur_date) = TradeAction("HOLD")
    \/ /\ DecidedOn(cur_date) = TradeAction("BUY")
       /\ LotShares(C22_YesterdayCapital, get_price(quotes, cur_date)) = 0
    \/ /\ DecidedOn(cur_date) = TradeAction("SELL")
       /\ DecLe(C22_YesterdayPosition, DecZero)

C23_Over == pc \in {"done", "raised"}

\* C23: backtest_stock terminates: the loop starts at the later of start_date
\* and the listing date, every iteration that completes, a skipped day
\* included, moves the date forward by exactly one day, the loop ends once
\* the date is past end_date, and every run is over after finitely many steps.
C23_BacktestTerminates ==
    /\ [][/\ pc = "idle" => (pc' = "loop" /\ cur_date' = C21_FirstDay)
          /\ (pc = "loop" /\ cur_date <= end_date) =>
                 \/ pc' = "loop" /\ cur_date' = cur_date + 1
                 \/ pc' = "raised" /\ cur_date' = cur_date
          /\ (pc = "loop" /\ cur_date > end_date) =>
                 (pc' = "done" /\ cur_date' = end_date + 1)
          /\ C23_Over => UNCHANGED vars]_vars
    /\ <>C23_Over

\* a finished run whose loop skipped a day and processed a day
C23_Witness ==
    /\ pc = "done"
    /\ cur_date = end_date + 1
    /\ results # <<>>
    /\ \E d \in C21_FirstDay..end_date : ~HasPrice(quotes, d)

(***************************************************************************)
(* Claims about the PE percentile                                          *)
(***************************************************************************)
\* the same indicator with another PE: the later the day, the lower the PE
C24_OtherPe(ind) == [ind EXCEPT !.pe = Some(DecInt(100 - ind.trade_date))]
C24_NoPe(ind) == [ind EXCEPT !.pe = None]
C24_WithOtherPe == [i \in 1..Len(indicators) |-> C24_OtherPe(indicators[i])]
C24_WithoutPe == [i \in 1..Len(indicators) |-> C24_NoPe(indicators[i])]

C25_SyncStep(sync_type) ==
    /\ call'.op = "sync" /\ call'.sync_type = sync_type /\ call'.at = now
    /\ <<call, ret, sync_tasks>>' # <<call, ret, sync_tasks>>

\* the type is due: it has no row, or no time, or its interval has passed
C25_Due(tasks, sync_type, t_now) ==
    \/ ~tasks[sync_type].found
    \/ tasks[sync_type].last_sync_time = NoTime
    \/ t_now >= tasks[sync_type].last_sync_time + interval(sync_type)

\* C25: when fetch_and_save raises, sync raises, the table sync_tasks is as
\* it was (a type without a row still has none), and the type stays due
\* until a fetch of it is saved, so the next sync of the type fetches again.
C25_FailedFetchKeepsTime ==
    [][\A sync_type \in SyncTypes :
          /\ (C25_SyncStep(sync_type) /\ call'.fetch = "raised") =>
                 /\ ret'.raised = "Exception"
                 /\ sync_tasks' = sync_tasks
                 /\ C25_Due(sync_tasks', sync_type, now')
          /\ (C25_Due(sync_tasks, sync_type, now)
                 /\ ~(C25_SyncStep(sync_type) /\ call'.fetch = "saved")) =>
                 C25_Due(sync_tasks', sync_type, now')]_vars

\* a sync of a type that was never synced has raised, and the other type
\* has been synced
C25_Witness ==
    /\ call.op = "sync"
    /\ call.fetch = "raised"
    /\ ret.raised = "Exception"
    /\ ~sync_tasks[call.sync_type].found
    /\ \E other \in SyncTypes : sync_tasks[other].found

\* C26: sync fetches exactly when the type has no row or is due (no
\* last-sync time, or now >= last-sync time + interval); a sync that does
\* not fetch leaves the table as it was, and a fetch that is saved sets the
\* last-sync time of the type to the time of saving.
C26_FetchesWhenDue ==
    [][\A sync_type \in SyncTypes :
          C25_SyncStep(sync_type) =>
              /\ call'.fetch # "not called" <=> C25_Due(sync_tasks, sync_type, now)
              /\ call'.fetch = "not called" => (sync_tasks' = sync_tasks /\ now' = now)
              /\ call'.fetch = "saved" =>
                     /\ sync_tasks'[sync_type] = Row(now')
                     /\ \A other \in SyncTypes \ {sync_type} :
                            sync_tasks'[other] = sync_tasks[other]]_vars

\* a sync of the weekly type that did not fetch, days after its last sync
C26_Witness ==
    /\ call.op = "sync"
    /\ call.fetch = "not called"
    /\ call.sync_type = "stock_list"
    /\ sync_tasks[call.sync_type].found
    /\ sync_tasks[call.sync_type].last_sync_time < now

(***************************************************************************)
(* Claims about the provider calls                                         *)
(***************************************************************************)
\* a finished call of the wrapper made between 1 and max_retries calls of
\* the method, returned the result of the first that succeeded, which was
\* the last call, or raised the exception of the last of max_retries
\* failed calls, and slept retry_delay after every failed call but the last
C27_AsClaimed ==
    /\ Cardinality(CallsMade) >= 1
    /\ Cardinality(CallsMade) <= api.max_retries
    /\ Len(log) = 2 * Cardinality(CallsMade) - 1
    /\ \A i \in 1..Len(log) :
           IF i % 2 = 1
           THEN /\ log[i][1] = "call"
                /\ log[i][2] = "ok" <=> (i = Len(log) /\ pc = "done")
           ELSE log[i] = <<"sleep", api.retry_delay>>
    /\ pc = "done" => ret = Returned("rows")
    /\ pc = "raised" =>
           /\ Cardinality(CallsMade) = api.max_retries
           /\ ret = Raised(log[Len(log)][2])

\* C27: every call through TushareAPI calls the underlying method at least
\* once and at most max_retries times, returns the first successful result
\* without a further attempt, sleeps retry_delay between failed attempts but
\* not after the last, re-raises the last exception after max_retries
\* failures, and returns no value without a successful call.
C27_BoundedRetries ==
    /\ Cardinality(CallsMade) <= api.max_retries
    /\ pc \in {"done", "raised"} => C27_AsClaimed

\* the same for an API built with max_retries of 1 or more, as every
\* fetcher of the package builds it
C27_PositiveRetries ==
    (api.max_retries >= 1 /\ pc \in {"done", "raised"}) => C27_AsClaimed

\* a call that succeeded at the last of three attempts
C27_RetriedCase ==
    /\ pc = "done"
    /\ api.max_retries = MaxRetries
    /\ Cardinality(CallsMade) = MaxRetries
    /\ ret = Returned("rows")

(***************************************************************************)
(* Claims about the run over several securities                            *)
(***************************************************************************)
\* the step starts the backtest of a security
C28_Starts == pc \in {"idle", "done"} /\ pc' = "loop"

\* the days of the security under way that the loop has reached
C28_OwnDays(rows, d) == {rows[j].date : j \in 1..Len(rows)} \cup {d}

C29_Cash ==
    {DecZero, DecInt(1099), Dec(10999, 1), DecInt(1100), Dec(11001, 1), DecInt(2199),
     DecInt(InitialCapital - 1), DecInt(InitialCapital)}

\* C29: after every processed day the cash, the initial capital plus the
\* net cash flow to the day, is not negative, and neither is the cash of the
\* day before; the shares bought with an amount of cash at the price of a
\* processed day never cost more than that cash.
C29_CashNeverNegative ==
    \A i \in 1..Len(results) :
        LET row == results[i]
        IN /\ DecLe(DecZero, row.yesterday_capital)
           /\ DecLe(DecZero, row.today_capital)
           /\ DecLe(DecZero, DecAdd(row.init_capital, row.net_cash_flow_value))
           /\ \A cash \in C29_Cash :
                  /\ LotShares(cash, row.price) >= 0
                  /\ DecLe(DecMul(row.price, DecInt(LotShares(cash, row.price))), cash)

\* a finished run with dividends on record that processed a BUY day
C29_Witness ==
    /\ pc = "done"
    /\ dividends # <<>>
    /\ \E i \in 1..Len(results) :
           /\ DecidedOn(results[i].date) = TradeAction("BUY")
           /\ LotShares(results[i].yesterday_capital, results[i].price) > 0

(***************************************************************************)
(* Claims about the dates of the cash-flow events                          *)
(***************************************************************************)
\* the events the call listed or summed
C30_Events ==
    IF call.op = "calculate_net_cash_flow_value" THEN get_cash_flows(rc, call.date)
    ELSE ret.flows

\* C30: every event get_cash_flows(as_of) returns, and so every amount
\* calculate_net_cash_flow_value(as_of) sums, is dated on or before as_of;
\* in the list with the terminal value no event is dated after the terminal
\* event and the terminal event is the last of the list.
C30_EventsUpToAsOf ==
    (call.op \in {"get_cash_flows", "calculate_net_cash_flow_value",
                  "_get_cash_flows_with_final_value"} /\ ret.raised = "none") =>
        /\ \A k \in 1..Len(C30_Events) : C30_Events[k][1] <= call.date
        /\ \A k \in 1..Len(C30_Events) : Len(C30_Events[k]) = 2 => k = Len(C30_Events)

====
